---- MODULE Spec2Model ----
(***************************************************************************)
(* A model of the BitTorrent client: piece/block geometry (torrent.rs),   *)
(* the peer wire codec (peer_messages.rs) and the piece session and       *)
(* download orchestration (bt_client.rs).                                  *)
(***************************************************************************)
EXTENDS Integers, Sequences, FiniteSets, TLC

(***************************************************************************)
(* Bounds of the model.                                                    *)
(***************************************************************************)
\* geometry inputs (GeomSpec)
MaxTotalLen == 7
MaxPieceLen == 3
MaxPieces == 3
MaxBlockSize == 3
MaxFileLen == 2
\* longest payload of the BitField and Piece messages of MessageSpec
MaxPayloadLen == 2
\* frames in a stream of ReadSpec, and bytes that may miss at its end
MaxFrames == 2
MaxCut == 1
\* payload bytes the peer may put in a Piece block are 1..MaxByte
MaxByte == 2
\* longest block a peer sends in one Piece message
MaxBlockLen == 2
\* the torrent downloaded in Spec: file length, piece length; the block size
SessFileLen == 5
SessPieceLen == 3
SessBlockSize == 2

(***************************************************************************)
(* Helpers on sequences and bytes.                                         *)
(***************************************************************************)
Min(a, b) == IF a < b THEN a ELSE b

RECURSIVE SumSeq(_)
SumSeq(s) == IF s = <<>> THEN 0 ELSE Head(s) + SumSeq(Tail(s))

RECURSIVE Concat(_)
Concat(ss) == IF ss = <<>> THEN <<>> ELSE Head(ss) \o Concat(Tail(ss))

\* the sum of the second components of a set of pairs
RECURSIVE SumSnd(_)
SumSnd(S) == IF S = {} THEN 0
             ELSE LET x == CHOOSE y \in S : TRUE IN x[2] + SumSnd(S \ {x})

\* s[a..b) with 0-based bounds, as a Rust slice s[a..b]
Slice(s, a, b) == SubSeq(s, a + 1, b)

Zeros(n) == [k \in 1..n |-> 0]

\* u32::to_be_bytes
U32BE(n) == << (n \div 16777216) % 256, (n \div 65536) % 256, (n \div 256) % 256, n % 256 >>

\* the bytes taken in the other order
FromU32BEMut(b) == b[4] * 16777216 + b[3] * 65536 + b[2] * 256 + b[1]

\* u32::from_be_bytes
FromU32BE(b) == b[1] * 16777216 + b[2] * 65536 + b[3] * 256 + b[4]

(***************************************************************************)
(* sha1::hash.  The SHA-1 primitive is an external collaborator; it is     *)
(* modelled as a 20-byte digest that folds the input into 20 positions.    *)
(* On inputs shorter than 20 bytes, all below 255, it has no collisions    *)
(* (position k holds input[k] + 1, or 0 past the end), which is the        *)
(* property of SHA-1 the program relies on.                                *)
(***************************************************************************)
RECURSIVE Fold(_, _)
Fold(bytes, j) ==
    IF j > Len(bytes) THEN 0
    ELSE (bytes[j] + 1) * (((j - 1) \div 20) + 1) + Fold(bytes, j + 20)

hash(bytes) == [k \in 1..20 |-> Fold(bytes, k) % 256]

(***************************************************************************)
(* torrent.rs: Torrent, piece and block geometry.                          *)
(* A torrent is [name, piece_length, pieces, keys] where keys is           *)
(* [kind |-> "SingleFile", length |-> n, files |-> <<>>] or                *)
(* [kind |-> "MultiFile", length |-> 0, files |-> <<n1, n2, ..>>].         *)
(* A call that panics yields [tag |-> "panic"].                            *)
(***************************************************************************)
total_len(t) ==
    IF t.keys.kind = "SingleFile" THEN t.keys.length ELSE SumSeq(t.keys.files)

piece_length(t) == t.piece_length

pieces_count(t) == Len(t.pieces)

\* total_len % piece_length panics when piece_length is 0: callers test it first
last_piece_size(t) ==
    LET len == total_len(t) % piece_length(t)
    IN  IF len = 0 THEN piece_length(t) ELSE len

pieces_info(t) ==
    IF pieces_count(t) = 0 THEN [tag |-> "ok", val |-> <<>>]
    ELSE IF piece_length(t) = 0 THEN [tag |-> "panic", val |-> <<>>]
    ELSE [tag |-> "ok",
          val |-> [k \in 1..pieces_count(t) |->
                     [index  |-> k - 1,
                      offset |-> (k - 1) * piece_length(t),
                      length |-> IF k - 1 = pieces_count(t) - 1
                                 THEN last_piece_size(t)
                                 ELSE piece_length(t)]]]

blocks_countMut(length, block_size) == length \div block_size

blocks_count(length, block_size) == (length + block_size - 1) \div block_size

blocks_info(t, piece_index, block_size) ==
    LET pi == pieces_info(t) IN
    IF pi.tag = "panic" THEN [tag |-> "panic", val |-> <<>>]
    ELSE IF piece_index >= Len(pi.val) THEN [tag |-> "none", val |-> <<>>]
    ELSE IF block_size = 0 THEN [tag |-> "panic", val |-> <<>>]
    ELSE LET length == pi.val[piece_index + 1].length
             n == blocks_count(length, block_size)
         IN  [tag |-> "ok",
              val |-> [k \in 1..n |->
                         [offset |-> (k - 1) * block_size,
                          length |-> IF k - 1 = n - 1
                                     THEN (IF length % block_size = 0
                                           THEN block_size
                                           ELSE length % block_size)
                                     ELSE block_size]]]

(***************************************************************************)
(* peer_messages.rs: the handshake.                                        *)
(* A handshake is [info_hash, peer_id, extension], extension being "None"  *)
(* or "MagnetLink".                                                        *)
(***************************************************************************)
\* b"BitTorrent protocol"
ProtocolName == <<66, 105, 116, 84, 111, 114, 114, 101, 110, 116, 32,
                  112, 114, 111, 116, 111, 99, 111, 108>>

Handshake_with_extension(info_hash, peer_id, extension) ==
    [info_hash |-> info_hash, peer_id |-> peer_id, extension |-> extension]

Handshake_new(info_hash, peer_id) ==
    Handshake_with_extension(info_hash, peer_id, "None")

\* a magnet capability set in the wrong byte
Extension_to_bytesMut(e) ==
    IF e = "None" THEN Zeros(8) ELSE <<0, 0, 0, 0, 0, 0, 16, 0>>

Extension_to_bytes(e) ==
    IF e = "None" THEN Zeros(8) ELSE <<0, 0, 0, 0, 0, 16, 0, 0>>

Extension_from(value) ==
    IF value = <<0, 0, 0, 0, 0, 16, 0, 0>> THEN "MagnetLink" ELSE "None"

Handshake_to_bytes(h) ==
    <<19>> \o ProtocolName \o Extension_to_bytes(h.extension)
           \o h.info_hash \o h.peer_id

Handshake_fromMut(value) ==
    Handshake_with_extension(Slice(value, 28, 48), Slice(value, 48, 68),
                             Extension_from(Slice(value, 19, 27)))

Handshake_from(value) ==
    Handshake_with_extension(Slice(value, 28, 48), Slice(value, 48, 68),
                             Extension_from(Slice(value, 20, 28)))

(***************************************************************************)
(* peer_messages.rs: messages and their frames.                            *)
(* A message is a record with a field type; a decoding result is           *)
(* [kind, msg, used]: kind "ok" with the message, "err", "panic", and for  *)
(* a read "block" (the bytes are not there yet) or "eof"; used is the      *)
(* number of bytes taken from the stream.                                  *)
(***************************************************************************)
Choke == [type |-> "Choke"]
Unchoke == [type |-> "Unchoke"]
Interested == [type |-> "Interested"]
BitField(payload) == [type |-> "BitField", payload |-> payload]
Request(index, begin, length) ==
    [type |-> "Request", index |-> index, begin |-> begin, length |-> length]
Piece(index, begin, block) ==
    [type |-> "Piece", index |-> index, begin |-> begin, block |-> block]
\* an Extension message: ExtensionsInfo { m: Metadata { ut_metadata, ut_pex } },
\* an Option<u8> being its value, or -1 for None
ExtensionsWith(ut_metadata, ut_pex) ==
    [type |-> "Extension", ut_metadata |-> ut_metadata, ut_pex |-> ut_pex]

\* Message::Extension { extensions_info: ExtensionsInfo::new(ut_metadata) }
ExtensionMsg(ut_metadata) == ExtensionsWith(ut_metadata, -1)

NoMsg == [type |-> "none"]

\* the decimal digits of a u8
Digits(k) ==
    IF k < 10 THEN <<48 + k>>
    ELSE IF k < 100 THEN <<48 + (k \div 10), 48 + (k % 10)>>
    ELSE <<48 + (k \div 100), 48 + ((k \div 10) % 10), 48 + (k % 10)>>

Key_ut_metadata == <<117, 116, 95, 109, 101, 116, 97, 100, 97, 116, 97>>
Key_ut_pex == <<117, 116, 95, 112, 101, 120>>

\* serde_bencode::to_bytes(&ExtensionsInfo): b"d1:md11:ut_metadatai<k>e6:ut_pexi<k>eee",
\* a field that is None left out
ExtensionsInfo_to_bytes(ut_metadata, ut_pex) ==
    <<100, 49, 58, 109, 100>>
        \o (IF ut_metadata >= 0
            THEN <<49, 49, 58>> \o Key_ut_metadata \o <<105>> \o Digits(ut_metadata) \o <<101>>
            ELSE <<>>)
        \o (IF ut_pex >= 0
            THEN <<54, 58>> \o Key_ut_pex \o <<105>> \o Digits(ut_pex) \o <<101>>
            ELSE <<>>)
        \o <<101, 101>>

\* serde_bencode's decoder: the digits from position p on, as a number, and
\* the position after them
RECURSIVE ReadDigits(_, _, _, _)
ReadDigits(b, p, acc, any) ==
    IF p <= Len(b) /\ b[p] \in 48..57
    THEN ReadDigits(b, p + 1, acc * 10 + (b[p] - 48), TRUE)
    ELSE [ok |-> any, val |-> acc, next |-> p]

\* F of the value of v, which is computed once
Once(v, F(_)) == CHOOSE r \in {F(x) : x \in {v}} : TRUE

\* a byte string <len>:<bytes> at position p
ReadStr(b, p) ==
    Once(ReadDigits(b, p, 0, FALSE), LAMBDA n :
        IF n.ok /\ n.next <= Len(b) /\ b[n.next] = 58 /\ n.next + n.val <= Len(b)
        THEN [ok |-> TRUE, val |-> SubSeq(b, n.next + 1, n.next + n.val),
              next |-> n.next + n.val + 1]
        ELSE [ok |-> FALSE, val |-> <<>>, next |-> p])

\* an integer i<digits>e at position p
ReadInt(b, p) ==
    IF p <= Len(b) /\ b[p] = 105
    THEN Once(ReadDigits(b, p + 1, 0, FALSE), LAMBDA n :
             IF n.ok /\ n.next <= Len(b) /\ b[n.next] = 101
             THEN [ok |-> TRUE, val |-> n.val, next |-> n.next + 1]
             ELSE [ok |-> FALSE, val |-> 0, next |-> p])
    ELSE [ok |-> FALSE, val |-> 0, next |-> p]

\* the entries of Metadata from position p on, up to the e that closes it
RECURSIVE ReadMetadata(_, _, _)
ReadMetadata(b, p, acc) ==
    IF p > Len(b) THEN [acc EXCEPT !.ok = FALSE]
    ELSE IF b[p] = 101 THEN [acc EXCEPT !.next = p + 1]
    ELSE Once(ReadStr(b, p), LAMBDA k :
         Once(ReadInt(b, k.next), LAMBDA v :
             IF ~k.ok \/ ~v.ok \/ v.val > 255 THEN [acc EXCEPT !.ok = FALSE]
             ELSE Once(IF k.val = Key_ut_metadata THEN [acc EXCEPT !.ut_metadata = v.val]
                       ELSE IF k.val = Key_ut_pex THEN [acc EXCEPT !.ut_pex = v.val]
                       ELSE acc,
                       LAMBDA next : ReadMetadata(b, v.next, next))))

\* serde_bencode::from_bytes::<ExtensionsInfo>: the dictionary with the key
\* m, whose value is the dictionary of Metadata
NoExtensionsInfo == [ok |-> FALSE, ut_metadata |-> -1, ut_pex |-> -1, next |-> 0]

ExtensionsInfo_from_bytes(bytes) ==
    Once(bytes, LAMBDA b :
        IF Len(b) >= 5 /\ SubSeq(b, 1, 5) = <<100, 49, 58, 109, 100>>
        THEN Once(ReadMetadata(b, 6, [NoExtensionsInfo EXCEPT !.ok = TRUE]), LAMBDA m :
                 IF m.ok /\ m.next <= Len(b) /\ b[m.next] = 101 THEN m
                 ELSE NoExtensionsInfo)
        ELSE NoExtensionsInfo)

Message_to_bytes(m) ==
    CASE m.type = "Choke" -> <<0, 0, 0, 1, 0>>
      [] m.type = "Unchoke" -> <<0, 0, 0, 1, 1>>
      [] m.type = "Interested" -> <<0, 0, 0, 1, 2>>
      [] m.type = "BitField" -> U32BE(Len(m.payload) + 1) \o <<5>> \o m.payload
      [] m.type = "Request" ->
            <<0, 0, 0, 13, 6>> \o U32BE(m.index) \o U32BE(m.begin) \o U32BE(m.length)
      [] m.type = "Piece" ->
            U32BE(Len(m.block) + 9) \o <<7>> \o U32BE(m.index) \o U32BE(m.begin)
                \o m.block
      [] m.type = "Extension" ->
            LET payload == ExtensionsInfo_to_bytes(m.ut_metadata, m.ut_pex)
            IN  U32BE(Len(payload) + 2) \o <<20, 0>> \o payload

Decoded(kind, msg, used) == [kind |-> kind, msg |-> msg, used |-> used]

Message_from_bytes(input) ==
    LET n == Len(input) IN
    IF n < 5 THEN Decoded("err", NoMsg, n)
    ELSE LET id == input[5] IN
         CASE id = 0 -> Decoded("ok", Choke, n)
           [] id = 1 -> Decoded("ok", Unchoke, n)
           [] id = 2 -> Decoded("ok", Interested, n)
           [] id = 5 -> Decoded("ok", BitField(Slice(input, 5, n)), n)
           [] id = 6 /\ n = 17 ->
                 Decoded("ok", Request(FromU32BE(Slice(input, 5, 9)),
                                       FromU32BE(Slice(input, 9, 13)),
                                       FromU32BE(Slice(input, 13, 17))), n)
           [] id = 7 /\ n >= 13 ->
                 Decoded("ok", Piece(FromU32BE(Slice(input, 5, 9)),
                                     FromU32BE(Slice(input, 9, 13)),
                                     Slice(input, 13, n)), n)
           [] id = 20 ->
                 IF n < 6 THEN Decoded("panic", NoMsg, n)
                 ELSE Once(ExtensionsInfo_from_bytes(Slice(input, 6, n)), LAMBDA e :
                          IF e.ok THEN Decoded("ok", ExtensionsWith(e.ut_metadata, e.ut_pex), n)
                          ELSE Decoded("err", NoMsg, n))
           [] OTHER -> Decoded("err", NoMsg, n)

\* Message::read_from on a stream whose unread bytes are input; closed: the
\* peer will send no more
Message_read_from(input, closed) ==
    IF Len(input) < 5
    THEN (IF closed THEN Decoded("eof", NoMsg, Len(input))
          ELSE Decoded("block", NoMsg, 0))
    ELSE LET mark == Slice(input, 0, 5)
             len == FromU32BE(Slice(mark, 0, 4))
             id == mark[5]
         IN  IF id \in 0..2 THEN Message_from_bytes(mark)
             ELSE IF id \in {5, 6, 7, 20}
             THEN (IF 4 + len < 5 THEN Decoded("panic", NoMsg, 5)
                   ELSE IF Len(input) < 4 + len
                   THEN (IF closed THEN Decoded("eof", NoMsg, Len(input))
                         ELSE Decoded("block", NoMsg, 0))
                   ELSE Message_from_bytes(Slice(input, 0, 4 + len)))
             ELSE Decoded("err", NoMsg, 5)

(***************************************************************************)
(* torrent.rs: Torrent::info_hash, the SHA-1 of the bencoded Info struct   *)
(* (serde_bencode::to_bytes emits the dictionary with its keys sorted).    *)
(***************************************************************************)
RECURSIVE Dec(_)
Dec(n) == IF n < 10 THEN <<48 + n>> ELSE Dec(n \div 10) \o <<48 + (n % 10)>>

BeBytes(b) == Dec(Len(b)) \o <<58>> \o b
BeInt(n) == <<105>> \o Dec(n) \o <<101>>

RECURSIVE BePath(_)
BePath(path) == IF path = <<>> THEN <<>> ELSE BeBytes(Head(path)) \o BePath(Tail(path))

\* keys of a File: "length", "path"
RECURSIVE BeFiles(_)
BeFiles(files) ==
    IF files = <<>> THEN <<>>
    ELSE <<100>> \o BeBytes(<<108, 101, 110, 103, 116, 104>>) \o BeInt(Head(files))
                 \o BeBytes(<<112, 97, 116, 104>>)
                 \o <<108>> \o BePath(<< <<102>> >>) \o <<101>>
                 \o <<101>> \o BeFiles(Tail(files))

\* keys in byte order: "files" < "length" < "name" < "piece length" < "pieces"
Info_to_bytes(t) ==
    <<100>>
    \o (IF t.keys.kind = "MultiFile"
        THEN BeBytes(<<102, 105, 108, 101, 115>>)
                 \o <<108>> \o BeFiles(t.keys.files) \o <<101>>
        ELSE BeBytes(<<108, 101, 110, 103, 116, 104>>) \o BeInt(t.keys.length))
    \o BeBytes(<<110, 97, 109, 101>>) \o BeBytes(t.name)
    \o BeBytes(<<112, 105, 101, 99, 101, 32, 108, 101, 110, 103, 116, 104>>)
    \o BeInt(t.piece_length)
    \o BeBytes(<<112, 105, 101, 99, 101, 115>>) \o BeBytes(Concat(t.pieces))
    \o <<101>>

info_hash(t) == hash(Info_to_bytes(t))

\* bt_client.rs: PEER_ID = "alice_is_1_feet_tall"
PEER_ID == <<97, 108, 105, 99, 101, 95, 105, 115, 95, 49, 95, 102, 101, 101,
             116, 95, 116, 97, 108, 108>>

(***************************************************************************)
(* State.                                                                  *)
(*   torrent, block_size  the metainfo and BtClient.block_size             *)
(*   op, arg              the operation called: "download", or             *)
(*                        "download_piece" with its index                  *)
(*   pc                   where the client is in that operation            *)
(*   cur                  the piece index of the running piece_download    *)
(*   conns, nconn         the open TcpStreams, and how many were opened    *)
(*   rx                   bytes of the stream the client has not read       *)
(*   tx                   bytes the client wrote to the stream             *)
(*   state, piece, collected_blocks   locals of piece_download             *)
(*   file                 the buffer of download                           *)
(*   result               what the operation returned                     *)
(*   matched              the last (state, msg) that piece_download's      *)
(*                        match took                                       *)
(*   matching             every Piece message the running piece_download   *)
(*                        has copied into piece answers one of its         *)
(*                        Requests with the torrent's bytes (history)      *)
(*   started, completed   piece indexes whose connection was opened,       *)
(*                        whose piece_download returned Ok (history)       *)
(*   geo, hsk             the calls of GeomSpec and HandshakeSpec          *)
(*   call                 a call of one function: its name, its input and  *)
(*                        what it gave                                     *)
(***************************************************************************)
VARIABLES torrent, block_size, op, arg, pc, cur, conns, nconn,
          rx, tx, state, piece, collected_blocks, matched, matching, file, result,
          started, completed, geo, hsk, call

dlVars == <<torrent, block_size, op, arg, pc, cur, conns, nconn,
            rx, tx, state, piece, collected_blocks, matched, matching, file, result,
            started, completed>>

vars == <<dlVars, geo, hsk, call>>

NoMatch == [state |-> "none", msg |-> [type |-> "none", index |-> 0, begin |-> 0]]

Running == [status |-> "running", val |-> <<>>, err |-> ""]
Ok(bytes) == [status |-> "ok", val |-> bytes, err |-> ""]
Err(msg) == [status |-> "err", val |-> <<>>, err |-> msg]
Panicked == [status |-> "panic", val |-> <<>>, err |-> ""]

GeoIdle == [t |-> <<>>, pi |-> [tag |-> "unset", val |-> <<>>],
            bi |-> [tag |-> "unset", val |-> <<>>], bi_index |-> 0, bi_size |-> 0]
HskIdle == [stage |-> "idle", h |-> <<>>, bytes |-> <<>>, back |-> <<>>]
CallIdle == [fn |-> "none", stage |-> "idle", input |-> <<>>, output |-> <<>>]

(***************************************************************************)
(* The file served in the model and the torrents made from it, as the      *)
(* tests of bt_client.rs make theirs: pieces[i] is the hash of chunk i.    *)
(***************************************************************************)
FileByte(p) == 1 + (p % MaxByte)

FileContent(n) == [k \in 1..n |-> FileByte(k - 1)]

Chunk(n, pl, i) == Slice(FileContent(n), i * pl, Min(n, (i + 1) * pl))

SingleFile(n) == [kind |-> "SingleFile", length |-> n, files |-> <<>>]
MultiFile(fs) == [kind |-> "MultiFile", length |-> 0, files |-> fs]

\* b"f"
TorrentName == <<102>>

MkTorrent(n, pl) ==
    [name |-> TorrentName, piece_length |-> pl,
     pieces |-> [k \in 1..((n + pl - 1) \div pl) |-> hash(Chunk(n, pl, k - 1))],
     keys |-> SingleFile(n)]

SessionTorrents == { MkTorrent(SessFileLen, SessPieceLen) }

SessionBlockSizes == { SessBlockSize }

(***************************************************************************)
(* What the peer may send.  A Piece block holds the file's bytes at that   *)
(* place, at any offset up to the piece length; a block at offset 0 may    *)
(* instead hold bytes that are not the file's.                             *)
(***************************************************************************)
RightBlock(t, i, begin, len) ==
    [k \in 1..len |-> FileByte(i * piece_length(t) + begin + k - 1)]

WrongBlock(len) == [k \in 1..len |-> MaxByte + 1]

PeerBlocks(t, i, b) ==
    UNION { {RightBlock(t, i, b, n)} \cup (IF b = 0 THEN {WrongBlock(n)} ELSE {}) :
            n \in 1..MaxBlockLen }

PeerPieces(t) ==
    UNION { { Piece(ib[1], ib[2], blk) : blk \in PeerBlocks(t, ib[1], ib[2]) } :
            ib \in (0..pieces_count(t)) \X (0..piece_length(t)) }
    \cup { Piece(i, 0, <<>>) : i \in 0..pieces_count(t) }

PeerMessages(t) ==
    { Choke, Unchoke, Interested, BitField(<<>>), BitField(<<255>>),
      Request(0, 0, 1), ExtensionMsg(16) } \cup PeerPieces(t)

\* a keepalive, an unknown id, an extension frame without its sub-id, a
\* Request frame of the wrong length
RawFrames == { <<0, 0, 0, 0>>, <<0, 0, 0, 1, 9>>, <<0, 0, 0, 1, 20>>,
               <<0, 0, 0, 2, 6, 0>> }

PeerFrames(t) == { Message_to_bytes(m) : m \in PeerMessages(t) } \cup RawFrames

PeerHandshakes(t) ==
    { Handshake_to_bytes(Handshake_with_extension(ih, Zeros(20), e)) :
        ih \in {info_hash(t), Zeros(20)}, e \in {"None", "MagnetLink"} }

\* the two sets, per torrent of the model
FramesOf == [t \in SessionTorrents |-> PeerFrames(t)]
HandshakesOf == [t \in SessionTorrents |-> PeerHandshakes(t)]

\* Message::read_from on a stream that holds one frame of the peer
ReadOf ==
    [t \in SessionTorrents |-> [f \in PeerFrames(t) |-> Message_read_from(f, FALSE)]]

\* Message::read_from on what is left of the stream followed by the frame f
ReadFrame(t, left, f) ==
    IF left = <<>> /\ f # <<>> THEN ReadOf[t][f] ELSE Message_read_from(left \o f, FALSE)

(***************************************************************************)
(* bt_client.rs: the operations.                                           *)
(***************************************************************************)
Init ==
    /\ torrent \in SessionTorrents
    /\ block_size \in SessionBlockSizes
    /\ op \in {"download", "download_piece"}
    /\ arg \in 0..pieces_count(torrent)
    /\ (op = "download" => arg = 0)
    /\ pc = "call"
    /\ cur = 0
    /\ conns = {}
    /\ nconn = 0
    /\ rx = <<>>
    /\ tx = <<>>
    /\ state = "WaitingForBitField"
    /\ piece = <<>>
    /\ collected_blocks = {}
    /\ matched = NoMatch
    /\ matching = TRUE
    /\ file = <<>>
    /\ result = Running
    /\ started = <<>>
    /\ completed = <<>>
    /\ geo = GeoIdle
    /\ hsk = HskIdle
    /\ call = CallIdle

Return(r) ==
    /\ result' = r
    /\ pc' = "done"
    /\ conns' = {}

\* piece_download returns an error or panics: its locals and the stream are
\* dropped as the error goes up through download_piece or download
Fail(r) ==
    /\ Return(r)
    /\ rx' = <<>>
    /\ piece' = <<>>
    /\ collected_blocks' = {}
    /\ matching' = TRUE

\* download_piece(torrent, peer, index) is called
download_piece_begin ==
    /\ pc = "call" /\ op = "download_piece"
    /\ cur' = arg
    /\ pc' = "connect"
    /\ UNCHANGED <<geo, hsk, call, torrent, block_size, op, arg, conns, nconn, rx, tx,
                   state, piece, collected_blocks, matched, matching, file, result, started, completed>>

\* download(torrent, peer) is called: the buffer, then the loop over pieces_info()
download_begin ==
    /\ pc = "call" /\ op = "download"
    /\ file' = Zeros(total_len(torrent))
    /\ cur' = 0
    /\ IF pieces_info(torrent).tag = "panic"
       THEN Return(Panicked)
       ELSE pc' = "dl_next" /\ UNCHANGED <<result, conns>>
    /\ UNCHANGED <<geo, hsk, call, torrent, block_size, op, arg, nconn, rx, tx,
                   state, piece, collected_blocks, matched, matching, started, completed>>

\* the head of download's loop: the next piece, or Ok(file)
download_next ==
    /\ pc = "dl_next"
    /\ IF cur < Len(pieces_info(torrent).val)
       THEN pc' = "connect" /\ UNCHANGED <<result, conns>>
       ELSE Return(Ok(file))
    /\ UNCHANGED <<geo, hsk, call, torrent, block_size, op, arg, cur, nconn, rx, tx,
                   state, piece, collected_blocks, matched, matching, file, started, completed>>

\* TcpStream::connect(peer) succeeds
connect_ok ==
    /\ pc = "connect"
    /\ nconn' = nconn + 1
    /\ conns' = conns \cup {nconn + 1}
    /\ started' = Append(started, cur)
    /\ rx' = <<>> /\ tx' = <<>>
    /\ pc' = "shake_write"
    /\ UNCHANGED <<geo, hsk, call, torrent, block_size, op, arg, cur, state, piece,
                   collected_blocks, matched, matching, file, result, completed>>

\* a download that goes on to the next piece when a connection fails
connect_failMut ==
    /\ pc = "connect"
    /\ started' = Append(started, cur)
    /\ IF op = "download"
       THEN pc' = "dl_next" /\ cur' = cur + 1 /\ UNCHANGED <<result, conns>>
       ELSE Return(Err("opening socket to peer")) /\ UNCHANGED cur
    /\ UNCHANGED <<geo, hsk, call, torrent, block_size, op, arg, nconn, rx, tx,
                   state, piece, collected_blocks, matched, matching, file, completed>>

\* TcpStream::connect(peer) fails
connect_fail ==
    /\ pc = "connect"
    /\ started' = Append(started, cur)
    /\ Return(Err("opening socket to peer"))
    /\ UNCHANGED <<geo, hsk, call, torrent, block_size, op, arg, cur, nconn, rx, tx,
                   state, piece, collected_blocks, matched, matching, file, completed>>

\* shake_hands: the client's handshake is written
shake_hands_write ==
    /\ pc = "shake_write"
    /\ tx' = tx \o Handshake_to_bytes(
                     Handshake_with_extension(info_hash(torrent), PEER_ID, "None"))
    /\ pc' = "shake_read"
    /\ UNCHANGED <<geo, hsk, call, torrent, block_size, op, arg, cur, conns, nconn, rx,
                   state, piece, collected_blocks, matched, matching, file, result, started, completed>>

\* shake_hands: read_exact of the peer's 68 bytes
shake_hands_read ==
    /\ pc = "shake_read"
    /\ \E reply \in HandshakesOf[torrent] :
          LET stream == rx \o reply IN
          /\ rx' = Slice(stream, 68, Len(stream))
          /\ pc' = "session"
    /\ UNCHANGED <<geo, hsk, call, torrent, block_size, op, arg, cur, conns, nconn, tx,
                   state, piece, collected_blocks, matched, matching, file, result, started, completed>>

\* shake_hands: the peer closes the stream before its 68 bytes came
shake_hands_eof ==
    /\ pc = "shake_read"
    /\ Return(Err("shaking hands with peer"))
    /\ UNCHANGED <<geo, hsk, call, torrent, block_size, op, arg, cur, nconn, rx, tx,
                   state, piece, collected_blocks, matched, matching, file, started, completed>>

\* piece_download, up to its loop
piece_download_begin ==
    /\ pc = "session"
    /\ state' = "WaitingForBitField"
    /\ collected_blocks' = {}
    /\ matched' = NoMatch
    /\ matching' = TRUE
    /\ LET pi == pieces_info(torrent) IN
       IF pi.tag = "panic"
       THEN Return(Panicked) /\ UNCHANGED piece
       ELSE IF cur >= Len(pi.val)
       THEN Return(Err("no piece at this index")) /\ UNCHANGED piece
       ELSE /\ piece' = Zeros(pi.val[cur + 1].length)
            /\ pc' = "loop"
            /\ UNCHANGED <<result, conns>>
    /\ UNCHANGED <<geo, hsk, call, torrent, block_size, op, arg, cur, nconn, rx, tx,
                   file, started, completed>>

\* a loop that also ends when the lengths sum to more than piece.len()
CollectedMut(blocks, buf) == SumSnd(blocks) >= Len(buf)

\* the loop's test: the lengths of the collected blocks sum to piece.len()
Collected(blocks, buf) == SumSnd(blocks) = Len(buf)

\* the Request frames written on Unchoke
RECURSIVE RequestFrames(_, _)
RequestFrames(index, infos) ==
    IF infos = <<>> THEN <<>>
    ELSE Message_to_bytes(Request(index, Head(infos).offset, Head(infos).length))
             \o RequestFrames(index, Tail(infos))

\* a copy that puts every block at the start of the buffer
CopyIntoMut(buf, begin, block) ==
    [k \in 1..Len(buf) |-> IF k <= Len(block) THEN block[k] ELSE buf[k]]

\* piece[begin..begin + block.len()].copy_from_slice(&block)
CopyInto(buf, begin, block) ==
    [k \in 1..Len(buf) |->
        IF k > begin /\ k <= begin + Len(block) THEN block[k - begin] ELSE buf[k]]

\* the match on (state, msg) of piece_download: what is written, the next
\* state, the buffer and the collected blocks, or the error or panic
Step(kind, st, write, buf, blocks) ==
    [kind |-> kind, state |-> st, write |-> write, piece |-> buf, blocks |-> blocks]

\* a session that writes Interested twice
OnBitFieldMut(st, msg, index, buf, blocks) ==
    Step("cont", "WaitingForUnchoke",
         Message_to_bytes(Interested) \o Message_to_bytes(Interested), buf, blocks)

OnBitField(st, msg, index, buf, blocks) ==
    Step("cont", "WaitingForUnchoke", Message_to_bytes(Interested), buf, blocks)

\* a session that requests the blocks from the last to the first
OnUnchokeMut(t, bs, st, msg, index, buf, blocks) ==
    LET bi == blocks_info(t, index, bs) IN
    IF bi.tag = "panic" THEN Step("panic", st, <<>>, buf, blocks)
    ELSE IF bi.tag = "none" THEN Step("err", st, <<>>, buf, blocks)
    ELSE Step("cont", "WaitingForPieceBlock",
              RequestFrames(index, [k \in 1..Len(bi.val) |-> bi.val[Len(bi.val) + 1 - k]]),
              buf, blocks)

OnUnchoke(t, bs, st, msg, index, buf, blocks) ==
    LET bi == blocks_info(t, index, bs) IN
    IF bi.tag = "panic" THEN Step("panic", st, <<>>, buf, blocks)
    ELSE IF bi.tag = "none" THEN Step("err", st, <<>>, buf, blocks)
    ELSE Step("cont", "WaitingForPieceBlock", RequestFrames(index, bi.val), buf, blocks)

\* a session that asks again for every block it receives
OnPieceMut(st, msg, index, buf, blocks) ==
    IF msg.begin + Len(msg.block) > Len(buf)
    THEN Step("panic", st, <<>>, buf, blocks)
    ELSE Step("cont", st, Message_to_bytes(Request(index, msg.begin, Len(msg.block))),
              CopyInto(buf, msg.begin, msg.block),
              blocks \cup {<<msg.begin, Len(msg.block)>>})

OnPiece(st, msg, index, buf, blocks) ==
    IF msg.begin + Len(msg.block) > Len(buf)
    THEN Step("panic", st, <<>>, buf, blocks)
    ELSE Step("cont", st, <<>>, CopyInto(buf, msg.begin, msg.block),
              blocks \cup {<<msg.begin, Len(msg.block)>>})

\* a session that skips a message it does not expect
OnOtherMut(st, msg, index, buf, blocks) == Step("cont", st, <<>>, buf, blocks)

OnOther(st, msg, index, buf, blocks) == Step("err", st, <<>>, buf, blocks)

Match(t, bs, st, msg, index, buf, blocks) ==
    IF st = "WaitingForBitField" /\ msg.type = "BitField"
    THEN OnBitField(st, msg, index, buf, blocks)
    ELSE IF st = "WaitingForUnchoke" /\ msg.type = "Unchoke"
    THEN OnUnchoke(t, bs, st, msg, index, buf, blocks)
    ELSE IF st = "WaitingForPieceBlock" /\ msg.type = "Piece" /\ msg.index = index
    THEN OnPiece(st, msg, index, buf, blocks)
    ELSE OnOther(st, msg, index, buf, blocks)

\* what the match arms look at in a message: its variant and, for a Piece,
\* piece_index and begin
Header(msg) ==
    [type |-> msg.type,
     index |-> IF msg.type = "Piece" THEN msg.index ELSE 0,
     begin |-> IF msg.type = "Piece" THEN msg.begin ELSE 0]

\* the Piece messages that answer the Requests of piece_download(index) with
\* the bytes of the torrent's file
MatchingReplies(t, bs, index) ==
    LET bi == blocks_info(t, index, bs) IN
    IF bi.tag # "ok" THEN {}
    ELSE { Piece(index, bi.val[k].offset,
                 RightBlock(t, index, bi.val[k].offset, bi.val[k].length)) :
           k \in 1..Len(bi.val) }

\* the client is in Message::read_from and the bytes of the stream do not
\* yet make a frame
ReadBlocked == Message_read_from(rx, FALSE).kind = "block"

\* bytes of the peer arrive and the frame is still not whole
piece_download_wait ==
    /\ pc = "loop"
    /\ ~Collected(collected_blocks, piece)
    /\ ReadBlocked
    /\ \E f \in FramesOf[torrent] :
          /\ ReadFrame(torrent, rx, f).kind = "block"
          /\ rx' = rx \o f
    /\ UNCHANGED <<geo, hsk, call, torrent, block_size, op, arg, pc, cur, conns, nconn, tx,
                   state, piece, collected_blocks, matched, matching, file, result, started, completed>>

\* one turn of the loop: Message::read_from gives a message, an error or a
\* panic, and the message is matched against the state.  The frame read is
\* in the stream already, or the peer sends it now.
piece_download_read ==
    /\ pc = "loop"
    /\ ~Collected(collected_blocks, piece)
    /\ \E f \in FramesOf[torrent] \cup {<<>>} :
          /\ f # <<>> => ReadBlocked
          /\ LET stream == rx \o f
                 r == ReadFrame(torrent, rx, f)
                 m == Match(torrent, block_size, state, r.msg, cur,
                            piece, collected_blocks)
             IN  /\ r.kind # "block"
                 /\ matched' = IF r.kind = "ok"
                                THEN [state |-> state, msg |-> Header(r.msg)]
                                ELSE matched
                 /\ IF r.kind = "panic"
                    THEN Fail(Panicked) /\ UNCHANGED <<tx, state>>
                    ELSE IF r.kind = "err"
                    THEN Fail(Err("read_from")) /\ UNCHANGED <<tx, state>>
                    ELSE IF m.kind = "panic"
                    THEN Fail(Panicked) /\ UNCHANGED <<tx, state>>
                    ELSE IF m.kind = "err"
                    THEN Fail(Err("unexpected message received"))
                         /\ UNCHANGED <<tx, state>>
                    ELSE /\ rx' = Slice(stream, r.used, Len(stream))
                         /\ tx' = tx \o m.write
                         /\ state' = m.state
                         /\ piece' = m.piece
                         /\ collected_blocks' = m.blocks
                         /\ matching' = (matching /\ (r.msg.type = "Piece" =>
                                           r.msg \in MatchingReplies(torrent, block_size, cur)))
                         /\ UNCHANGED <<pc, result, conns>>
    /\ UNCHANGED <<geo, hsk, call, torrent, block_size, op, arg, cur, nconn,
                   file, started, completed>>

\* the peer closes the stream and Message::read_from meets its end
piece_download_eof ==
    /\ pc = "loop"
    /\ ~Collected(collected_blocks, piece)
    /\ ReadBlocked
    /\ Fail(Err("reading from input"))
    /\ UNCHANGED <<geo, hsk, call, torrent, block_size, op, arg, cur, nconn, tx,
                   state, matched, file, started, completed>>

\* the loop's test holds: piece_download returns Ok(piece)
piece_download_complete ==
    /\ pc = "loop"
    /\ Collected(collected_blocks, piece)
    /\ pc' = "piece_ok"
    /\ completed' = Append(completed, cur)
    /\ UNCHANGED <<geo, hsk, call, torrent, block_size, op, arg, cur, conns, nconn, rx, tx,
                   state, piece, collected_blocks, matched, matching, file, result, started>>

\* download_piece returns what piece_download returned
download_piece_return ==
    /\ pc = "piece_ok" /\ op = "download_piece"
    /\ Return(Ok(piece))
    /\ UNCHANGED <<geo, hsk, call, torrent, block_size, op, arg, cur, nconn, rx, tx,
                   state, piece, collected_blocks, matched, matching, file, started, completed>>

\* a download that keeps the stream of a piece open while it takes the next
download_copyMut ==
    /\ pc = "piece_ok" /\ op = "download"
    /\ LET info == pieces_info(torrent).val[cur + 1] IN
       IF info.offset + info.length > Len(file) \/ info.length # Len(piece)
       THEN Return(Panicked) /\ UNCHANGED <<file, cur>>
       ELSE /\ file' = CopyInto(file, info.offset, piece)
            /\ cur' = cur + 1
            /\ pc' = "dl_next"
            /\ UNCHANGED <<result, conns>>
    /\ matched' = NoMatch
    /\ matching' = TRUE
    /\ UNCHANGED <<geo, hsk, call, torrent, block_size, op, arg, nconn, rx, tx,
                   state, piece, collected_blocks, started, completed>>

\* a download that starts from a zeroed buffer at every piece
download_copyZero ==
    /\ pc = "piece_ok" /\ op = "download"
    /\ LET info == pieces_info(torrent).val[cur + 1] IN
       IF info.offset + info.length > Len(file) \/ info.length # Len(piece)
       THEN Return(Panicked) /\ UNCHANGED <<file, cur>>
       ELSE /\ file' = CopyInto(Zeros(Len(file)), info.offset, piece)
            /\ cur' = cur + 1
            /\ conns' = {}
            /\ pc' = "dl_next"
            /\ UNCHANGED result
    /\ matched' = NoMatch
    /\ matching' = TRUE
    /\ UNCHANGED <<geo, hsk, call, torrent, block_size, op, arg, nconn, rx, tx,
                   state, piece, collected_blocks, started, completed>>

\* download: file[offset..offset + length].copy_from_slice(&piece), the
\* stream is dropped, and the loop goes on
download_copy ==
    /\ pc = "piece_ok" /\ op = "download"
    /\ LET info == pieces_info(torrent).val[cur + 1] IN
       IF info.offset + info.length > Len(file) \/ info.length # Len(piece)
       THEN Return(Panicked) /\ UNCHANGED <<file, cur>>
       ELSE /\ file' = CopyInto(file, info.offset, piece)
            /\ cur' = cur + 1
            /\ conns' = {}
            /\ pc' = "dl_next"
            /\ UNCHANGED result
    /\ matched' = NoMatch
    /\ matching' = TRUE
    /\ UNCHANGED <<geo, hsk, call, torrent, block_size, op, arg, nconn, rx, tx,
                   state, piece, collected_blocks, started, completed>>

Next ==
    \/ download_piece_begin
    \/ download_begin
    \/ download_next
    \/ connect_ok
    \/ connect_fail
    \/ shake_hands_write
    \/ shake_hands_read
    \/ shake_hands_eof
    \/ piece_download_begin
    \/ piece_download_wait
    \/ piece_download_read
    \/ piece_download_eof
    \/ piece_download_complete
    \/ download_piece_return
    \/ download_copy

Spec == Init /\ [][Next]_vars

(***************************************************************************)
(* The piece session: BitField, Unchoke, Piece                             *)
(***************************************************************************)

\* what the client has written once shake_hands is over
HandshakeSent ==
    Handshake_to_bytes(Handshake_with_extension(info_hash(torrent), PEER_ID, "None"))

\* C1: a piece session starts in the state that waits for a BitField with
\* nothing written after the handshake; when the first message it receives is
\* a BitField, whatever its payload, exactly one Interested frame has been
\* written after the handshake, nothing else, and the state is the one that
\* waits for Unchoke.
C1_BitFieldThenInterested ==
    /\ (pc = "loop" /\ matched = NoMatch) =>
           (state = "WaitingForBitField" /\ tx = HandshakeSent)
    /\ (matched.state = "WaitingForBitField" /\ matched.msg.type = "BitField") =>
           /\ state = "WaitingForUnchoke"
           /\ tx = HandshakeSent \o <<0, 0, 0, 1, 2>>

C1_Witness ==
    /\ pc = "loop"
    /\ matched.state = "WaitingForBitField" /\ matched.msg.type = "BitField"
    /\ state = "WaitingForUnchoke"

\* the Request frames of a piece of size bytes cut in blocks of B bytes, in
\* ascending order of offset
ExpectedRequests(index, size, B) ==
    LET n == CHOOSE k \in 0..size : k * B >= size /\ (k - 1) * B < size IN
    Concat([j \in 1..n |->
              Message_to_bytes(Request(index, (j - 1) * B, Min(B, size - (j - 1) * B)))])

\* C2: when Unchoke is received in the state that waits for it, the Request
\* frames written are exactly the blocks of the piece, one frame per block,
\* in ascending order of offset, each with the piece index, the block's
\* offset and the block's length, and the state is the one that waits for
\* Piece blocks.
C2_UnchokeThenRequests ==
    (matched.state = "WaitingForUnchoke" /\ matched.msg.type = "Unchoke") =>
        /\ state = "WaitingForPieceBlock"
        /\ tx = HandshakeSent \o <<0, 0, 0, 1, 2>>
                  \o ExpectedRequests(cur, Len(Chunk(total_len(torrent),
                                                     piece_length(torrent), cur)),
                                      block_size)

C2_Witness ==
    /\ pc = "loop"
    /\ matched.state = "WaitingForUnchoke" /\ matched.msg.type = "Unchoke"
    /\ state = "WaitingForPieceBlock"
    /\ Len(tx) >= Len(HandshakeSent) + 5 + 2 * 17

\* the message the state st of the session of piece index waits for
Expected(st, h, index) ==
    \/ st = "WaitingForBitField" /\ h.type = "BitField"
    \/ st = "WaitingForUnchoke" /\ h.type = "Unchoke"
    \/ st = "WaitingForPieceBlock" /\ h.type = "Piece" /\ h.index = index

\* C3: a message that is not the one the current state expects (a Piece of
\* another index, a second BitField, a Choke, an Unchoke while blocks are
\* awaited, ...) ends the session with the error "unexpected message
\* received": it is not skipped, and the state is the one it was matched in.
C3_UnexpectedIsError ==
    (matched # NoMatch /\ ~Expected(matched.state, matched.msg, cur)) =>
        /\ pc = "done"
        /\ result = Err("unexpected message received")
        /\ state = matched.state

C3_Witness ==
    /\ pc = "done"
    /\ result = Err("unexpected message received")
    /\ matched.state = "WaitingForPieceBlock"
    /\ matched.msg.type = "Piece" /\ matched.msg.index # cur

\* C4: when the Piece messages received are the replies that match the
\* Requests, in whatever order they arrive, the session returns the bytes of
\* the original piece.
C4_AnyOrderSamePiece ==
    /\ (pc = "piece_ok" /\ matching) =>
           piece = Chunk(total_len(torrent), piece_length(torrent), cur)
    /\ (pc = "done" /\ op = "download_piece" /\ result.status = "ok" /\ matching) =>
           result.val = Chunk(total_len(torrent), piece_length(torrent), arg)

\* the replies came in another order than the Requests: the block at offset
\* 0 was the last to arrive
C4_Witness ==
    /\ pc = "piece_ok" /\ matching
    /\ Cardinality(collected_blocks) >= 2
    /\ matched.msg.type = "Piece" /\ matched.msg.begin = 0

\* C5: when download_piece(i) returns bytes, their SHA-1 is pieces[i].
C5_ReturnedPieceHashes ==
    (pc = "done" /\ op = "download_piece" /\ result.status = "ok") =>
        hash(result.val) = torrent.pieces[arg + 1]

\* C6: download takes the pieces one after the other in ascending order of
\* index: the connection of piece N+1 is opened only once the session of
\* piece N has completed, and at most one connection exists at a time.
C6_SerialAscending ==
    op = "download" =>
        /\ Cardinality(conns) <= 1
        /\ \A k \in 1..Len(started) : started[k] = k - 1
        /\ \A k \in 1..Len(completed) : completed[k] = k - 1
        /\ Len(completed) <= Len(started)
        /\ Len(started) <= Len(completed) + 1

C6_Witness ==
    /\ op = "download"
    /\ started = <<0, 1>> /\ completed = <<0>>
    /\ Cardinality(conns) = 1

\* C7: download returns Ok(file) only when the session of every piece has
\* completed; when the connection, the handshake or the session of a piece
\* fails, download ends with that failure and returns no file, whatever was
\* downloaded before.
C7_FailureNeverFile ==
    op = "download" =>
        /\ result.status = "ok" =>
               /\ completed = [k \in 1..pieces_count(torrent) |-> k - 1]
               /\ result.val = file
        /\ (pc = "done" /\ Len(completed) < pieces_count(torrent)) =>
               /\ result.status \in {"err", "panic"}
               /\ result.val = <<>>
               /\ result.status = "err" =>
                      result.err \in {"opening socket to peer", "shaking hands with peer",
                                      "reading from input", "read_from",
                                      "unexpected message received"}

C7_Witness ==
    /\ op = "download" /\ pc = "done"
    /\ completed = <<0>>
    /\ result.status = "err"
    /\ file # Zeros(Len(file))

(***************************************************************************)
(* Geometry: pieces_info and blocks_info over the metainfo the parser      *)
(* accepts.  Deserialization checks that "pieces" is a multiple of 20      *)
(* bytes and that "length" or "files" is there, nothing else: piece        *)
(* length, the number of hashes and the lengths are any values.            *)
(***************************************************************************)

\* no download is running
DlIdle ==
    /\ torrent = MkTorrent(SessFileLen, SessPieceLen)
    /\ block_size = SessBlockSize
    /\ op = "none" /\ arg = 0 /\ pc = "idle" /\ cur = 0
    /\ conns = {} /\ nconn = 0 /\ rx = <<>> /\ tx = <<>>
    /\ state = "WaitingForBitField"
    /\ piece = <<>> /\ collected_blocks = {}
    /\ matched = NoMatch /\ matching = TRUE
    /\ file = <<>> /\ result = Running
    /\ started = <<>> /\ completed = <<>>

AcceptedKeys ==
    {SingleFile(n) : n \in 0..MaxTotalLen}
        \cup {MultiFile(<<a, b>>) : a \in 1..MaxFileLen, b \in 1..MaxFileLen}

AcceptedTorrents ==
    { [name |-> TorrentName, piece_length |-> pl,
       pieces |-> [k \in 1..c |-> Zeros(20)], keys |-> ks] :
      pl \in 0..MaxPieceLen, c \in 0..MaxPieces, ks \in AcceptedKeys }

GeomInit ==
    /\ DlIdle
    /\ hsk = HskIdle
    /\ call = CallIdle
    /\ geo \in {[GeoIdle EXCEPT !.t = t] : t \in AcceptedTorrents}

\* torrent.pieces_info() is called
geom_pieces_info ==
    /\ geo.pi.tag = "unset"
    /\ geo' = [geo EXCEPT !.pi = pieces_info(geo.t)]
    /\ UNCHANGED <<dlVars, hsk, call>>

\* torrent.blocks_info(piece_index, block_size) is called
geom_blocks_info ==
    /\ geo.bi.tag = "unset"
    /\ \E i \in 0..MaxPieces, B \in 0..MaxBlockSize :
          geo' = [geo EXCEPT !.bi = blocks_info(geo.t, i, B),
                             !.bi_index = i, !.bi_size = B]
    /\ UNCHANGED <<dlVars, hsk, call>>

GeomNext ==
    \/ geom_pieces_info
    \/ geom_blocks_info

GeomSpec == GeomInit /\ [][GeomNext]_vars

\* C8: for every metainfo the parser accepts, pieces_info gives one entry per
\* hash, at offsets index * piece_length, every piece but the last of
\* piece_length bytes, the last of total_len - (count - 1) * piece_length
\* bytes, and the lengths sum to total_len.
C8_GeometryTotal ==
    geo.pi.tag # "unset" =>
        LET t == geo.t
            n == pieces_count(t)
            pl == piece_length(t)
            p == geo.pi.val
        IN  /\ geo.pi.tag = "ok"
            /\ Len(p) = n
            /\ \A k \in 1..n :
                  /\ p[k].index = k - 1
                  /\ p[k].offset = (k - 1) * pl
                  /\ p[k].length = IF k < n THEN pl ELSE total_len(t) - (n - 1) * pl
            /\ SumSeq([k \in 1..n |-> p[k].length]) = total_len(t)

HandshakeInfoHashes ==
    {hash(<<a, b>>) : a \in 0..MaxByte, b \in 0..MaxByte}
        \cup {[k \in 1..20 |-> 16], [k \in 1..20 |-> 255]}

HandshakePeerIds == {PEER_ID, Zeros(20), [k \in 1..20 |-> 39 + k]}

Handshakes ==
    {Handshake_with_extension(ih, id, e) :
        ih \in HandshakeInfoHashes, id \in HandshakePeerIds, e \in {"None", "MagnetLink"}}

HandshakeInit ==
    /\ DlIdle
    /\ geo = GeoIdle
    /\ call = CallIdle
    /\ hsk \in {[HskIdle EXCEPT !.stage = "new", !.h = h] : h \in Handshakes}

\* handshake.to_bytes()
hs_to_bytes ==
    /\ hsk.stage = "new"
    /\ hsk' = [hsk EXCEPT !.stage = "bytes", !.bytes = Handshake_to_bytes(hsk.h)]
    /\ UNCHANGED <<dlVars, geo, call>>

\* Handshake::from(&bytes)
hs_from ==
    /\ hsk.stage = "bytes"
    /\ Len(hsk.bytes) = 68
    /\ hsk' = [hsk EXCEPT !.stage = "parsed", !.back = Handshake_from(hsk.bytes)]
    /\ UNCHANGED <<dlVars, geo, call>>

HandshakeNext ==
    \/ hs_to_bytes
    \/ hs_from

HandshakeSpec == HandshakeInit /\ [][HandshakeNext]_vars

\* C10: a handshake serializes to 68 bytes: the byte 19, "BitTorrent
\* protocol", 8 capability bytes (all 0, or 0x10 at index 5 for the magnet
\* capability), the 20 bytes of the info hash, the 20 bytes of the peer id;
\* parsing these bytes gives the handshake back, capability included.
C10_HandshakeRoundTrip ==
    /\ hsk.stage \in {"bytes", "parsed"} =>
          /\ Len(hsk.bytes) = 68
          /\ hsk.bytes[1] = 19
          /\ Slice(hsk.bytes, 1, 20) = ProtocolName
          /\ \A k \in 0..7 :
                hsk.bytes[21 + k] =
                    IF hsk.h.extension = "MagnetLink" /\ k = 5 THEN 16 ELSE 0
          /\ Slice(hsk.bytes, 28, 48) = hsk.h.info_hash
          /\ Slice(hsk.bytes, 48, 68) = hsk.h.peer_id
    /\ hsk.stage = "parsed" => hsk.back = hsk.h

C10_Witness ==
    /\ hsk.stage = "parsed"
    /\ hsk.h.extension = "MagnetLink"
    /\ hsk.back.extension = "MagnetLink"
    /\ hsk.back.info_hash = [k \in 1..20 |-> 16]

(***************************************************************************)
(* The capability bytes of the handshake each operation sends.             *)
(***************************************************************************)

\* no download, no geometry call, no handshake round trip
OthersIdle == DlIdle /\ geo = GeoIdle /\ hsk = HskIdle

\* the extension handshake, download_piece and download give to shake_hands
TorrentFileExtension == "None"

\* the extension the magnet handshake gives to handshake_with_extension
MagnetExtension == "MagnetLink"

ExtensionOf(command) ==
    IF command = "magnet_handshake" THEN MagnetExtension ELSE TorrentFileExtension

HandshakeCommands == {"handshake", "download_piece", "download", "magnet_handshake"}

\* the 68 bytes a peer answers
PeerReplies ==
    {Handshake_to_bytes(Handshake_with_extension(ih, id, e)) :
        ih \in {Zeros(20)}, id \in HandshakePeerIds, e \in {"None", "MagnetLink"}}

CapabilityInit ==
    /\ OthersIdle
    /\ call \in {[CallIdle EXCEPT !.fn = c, !.stage = "call", !.input = ih] :
                    c \in HandshakeCommands, ih \in HandshakeInfoHashes}

\* shake_hands: Handshake::with_extension(info_hash, PEER_ID, extension) is
\* written to the stream
cap_shake_hands_write ==
    /\ call.fn \in HandshakeCommands /\ call.stage = "call"
    /\ call' = [call EXCEPT
                  !.stage = "written",
                  !.output = Handshake_to_bytes(
                                 Handshake_with_extension(call.input, PEER_ID,
                                                          ExtensionOf(call.fn)))]
    /\ UNCHANGED <<dlVars, geo, hsk>>

\* shake_hands: the peer's 68 bytes are read
cap_shake_hands_read ==
    /\ call.fn \in HandshakeCommands /\ call.stage = "written"
    /\ \E reply \in PeerReplies :
          call' = [call EXCEPT !.stage = "read", !.input = reply]
    /\ UNCHANGED <<dlVars, geo, hsk>>

CapabilityNext ==
    \/ cap_shake_hands_write
    \/ cap_shake_hands_read

CapabilitySpec == CapabilityInit /\ [][CapabilityNext]_vars

\* C11: the handshake sent has 0x10 at index 5 of its 8 capability bytes and
\* 0 in the seven others exactly when the source is a magnet link; the
\* handshake of handshake, download_piece and download has eight zero
\* capability bytes.
C11_CapabilityBytes ==
    (call.fn \in HandshakeCommands /\ call.stage \in {"written", "read"}) =>
        LET caps == Slice(call.output, 20, 28) IN
        /\ Len(call.output) = 68
        /\ (caps = <<0, 0, 0, 0, 0, 16, 0, 0>>) <=> (call.fn = "magnet_handshake")
        /\ call.fn # "magnet_handshake" => caps = <<0, 0, 0, 0, 0, 0, 0, 0>>

C11_Witness ==
    /\ call.fn = "magnet_handshake" /\ call.stage = "read"
    /\ call.output[26] = 16

(***************************************************************************)
(* Messages: Message::to_bytes, then Message::from_bytes.                  *)
(***************************************************************************)

PayloadBytes == {0, 7, 255}

Payloads == UNION {[1..n -> PayloadBytes] : n \in 0..MaxPayloadLen}

\* u32 values; the largest is the largest number of the checker, 2^31 - 1
U32Samples == {0, 1, 256, 65537, 2147483647}

OptionU8Samples == {-1, 0, 16, 255}

AllMessages ==
    {Choke, Unchoke, Interested}
        \cup {BitField(p) : p \in Payloads}
        \cup {Request(i, b, l) : i \in U32Samples, b \in U32Samples, l \in U32Samples}
        \cup {Piece(i, b, blk) : i \in U32Samples, b \in U32Samples, blk \in Payloads}
        \cup {ExtensionsWith(m, x) : m \in OptionU8Samples, x \in OptionU8Samples}

MessageInit ==
    /\ OthersIdle
    /\ call \in {[CallIdle EXCEPT !.fn = "Message", !.stage = "call", !.input = m] :
                    m \in AllMessages}

\* message.to_bytes()
msg_to_bytes ==
    /\ call.fn = "Message" /\ call.stage = "call"
    /\ call' = [call EXCEPT !.stage = "bytes",
                            !.output = [bytes |-> Message_to_bytes(call.input),
                                        back |-> Decoded("none", NoMsg, 0)]]
    /\ UNCHANGED <<dlVars, geo, hsk>>

\* Message::from_bytes(&bytes)
msg_from_bytes ==
    /\ call.fn = "Message" /\ call.stage = "bytes"
    /\ call' = [call EXCEPT !.stage = "parsed",
                            !.output.back = Message_from_bytes(call.output.bytes)]
    /\ UNCHANGED <<dlVars, geo, hsk>>

MessageNext ==
    \/ msg_to_bytes
    \/ msg_from_bytes

MessageSpec == MessageInit /\ [][MessageNext]_vars

\* the bytes a message carries after its id
PayloadLen(m) ==
    CASE m.type \in {"Choke", "Unchoke", "Interested"} -> 0
      [] m.type = "BitField" -> Len(m.payload)
      [] m.type = "Request" -> 12
      [] m.type = "Piece" -> 8 + Len(m.block)
      [] m.type = "Extension" ->
            6 + (IF m.ut_metadata >= 0 THEN 16 + Len(Digits(m.ut_metadata)) ELSE 0)
              + (IF m.ut_pex >= 0 THEN 10 + Len(Digits(m.ut_pex)) ELSE 0) + 2

\* C12: for every message of every variant, the 4-byte big-endian prefix of
\* to_bytes is 1 plus the number of bytes after the id, the frame is 4 +
\* prefix bytes long, and from_bytes of the frame is the message.
C12_MessageRoundTrip ==
    /\ (call.fn = "Message" /\ call.stage \in {"bytes", "parsed"}) =>
          LET b == call.output.bytes
              prefix == b[1] * 16777216 + b[2] * 65536 + b[3] * 256 + b[4]
          IN  /\ prefix = 1 + PayloadLen(call.input)
              /\ Len(b) = 4 + prefix
    /\ (call.fn = "Message" /\ call.stage = "parsed") =>
          /\ call.output.back.kind = "ok"
          /\ call.output.back.msg = call.input

C12_Witness ==
    /\ call.fn = "Message" /\ call.stage = "parsed"
    /\ call.output.back.kind = "ok"
    /\ call.output.back.msg.type = "Piece"
    /\ call.output.back.msg.index = 65537
    /\ Len(call.output.back.msg.block) = MaxPayloadLen

(***************************************************************************)
(* The framing reader: Message::read_from, called again and again on a     *)
(* stream made of the frames a peer wrote, which may end early.            *)
(***************************************************************************)

KeepAlive == <<0, 0, 0, 0>>

\* frames of the seven messages, the keepalive, a Choke that declares one
\* payload byte, an unknown id
ReadFrames ==
    {Message_to_bytes(m) :
        m \in {Choke, Unchoke, Interested, BitField(<<>>), BitField(<<255>>),
               Request(0, 0, 1), Piece(0, 0, <<7>>), ExtensionMsg(16)}}
        \cup {KeepAlive, <<0, 0, 0, 2, 0, 9>>, <<0, 0, 0, 1, 9>>}

FrameSeqs == UNION {[1..n -> ReadFrames] : n \in 1..MaxFrames}

ReadInit ==
    /\ OthersIdle
    /\ call \in {[fn |-> "read_from", stage |-> "call",
                  input |-> [frames |-> fs,
                             stream |-> SubSeq(Concat(fs), 1, Len(Concat(fs)) - cut)],
                  output |-> [pos |-> 0, reads |-> <<>>]] :
                    fs \in FrameSeqs, cut \in 0..MaxCut}

\* Message::read_from(&mut stream): what it returns and the bytes it took
read_from ==
    /\ call.fn = "read_from" /\ call.stage = "call"
    /\ LET stream == call.input.stream
           pos == call.output.pos
           r == Message_read_from(Slice(stream, pos, Len(stream)), TRUE)
       IN  call' = [call EXCEPT
                      !.stage = IF r.kind = "ok" THEN "call" ELSE "end",
                      !.output = [pos |-> IF r.kind = "ok" THEN pos + r.used ELSE pos,
                                  reads |-> Append(call.output.reads,
                                                   [kind |-> r.kind, msg |-> r.msg,
                                                    from |-> pos, used |-> r.used])]]
    /\ UNCHANGED <<dlVars, geo, hsk>>

ReadNext == read_from

ReadSpec == ReadInit /\ [][ReadNext]_vars

\* where frame k starts in the stream the peer wrote
FrameStart(fs, k) == Len(Concat(SubSeq(fs, 1, k - 1)))

\* the messages returned so far
ReadMessages(reads) == [k \in 1..Len(reads) |-> reads[k].msg]

\* C13: a keepalive is recognised and ignored: the reader takes its 4 bytes
\* and no more, reports no malformed or unexpected message, and the frame
\* that follows it is decoded as the message it carries.
C13_KeepAliveIgnored ==
    (/\ call.fn = "read_from" /\ call.stage = "end"
     /\ Len(call.input.frames) = 2
     /\ call.input.frames[1] = KeepAlive
     /\ call.input.frames[2] = Message_to_bytes(Unchoke)
     /\ call.input.stream = Concat(call.input.frames)) =>
        LET reads == call.output.reads
            msgs == SelectSeq(ReadMessages(reads), LAMBDA m : m.type \notin {"none", "KeepAlive"})
        IN  /\ msgs = <<Unchoke>>
            /\ call.output.pos = Len(call.input.stream)
            /\ \A k \in 1..Len(reads) : reads[k].kind \in {"ok", "eof"}

\* C14: a read that starts at a frame with declared length N >= 1 and one of
\* the ids 0, 1, 2, 5, 6, 7, 20 takes exactly 4 + N bytes when the stream
\* holds them, and returns an error, no message, when the stream ends first.
C14_ExactConsumption ==
    call.fn = "read_from" =>
        \A k \in 1..Len(call.output.reads) :
            LET fs == call.input.frames
                rd == call.output.reads[k]
                f == fs[k]
                N == f[1] * 16777216 + f[2] * 65536 + f[3] * 256 + f[4]
            IN  (/\ k <= Len(fs)
                 /\ rd.from = FrameStart(fs, k)
                 /\ N >= 1 /\ f[5] \in {0, 1, 2, 5, 6, 7, 20}) =>
                    IF rd.from + 4 + N <= Len(call.input.stream)
                    THEN rd.used = 4 + N
                    ELSE rd.kind \in {"eof", "err"}

\* ---------------------------------------------------------------
\* tracker.rs / main.rs: the compact peers field of a tracker response

MaxPeersLen == 7

PeerBytes == {1, 200}

\* Peer::new(address, port): Ipv4Addr::new(a0, a1, a2, a3), u16::from_be_bytes(port)
Peer_new(address, port) ==
    [address |-> address, port |-> port[1] * 256 + port[2]]

\* PeersVisitor::visit_bytes
Peers_visit_bytes(v) ==
    IF Len(v) % 6 # 0
        THEN [tag |-> "err", peers |-> <<>>]
        ELSE [tag |-> "ok",
              peers |-> [r \in 1..(Len(v) \div 6) |->
                            Peer_new(Slice(v, 6 * (r - 1), 6 * (r - 1) + 4),
                                     Slice(v, 6 * (r - 1) + 4, 6 * (r - 1) + 6))]]

\* the closure of BtClient::get_peers in main.rs on one chunk of chunks(6):
\* i[0..4] and i[4..6] index out of range on a short chunk
main_peer_of_chunk(i) ==
    IF Len(i) < 6
        THEN [tag |-> "panic"]
        ELSE [tag |-> "ok",
              peer |-> [address |-> Slice(i, 0, 4), port |-> i[5] * 256 + i[6]]]

\* BtClient::get_peers of main.rs, from the peers byte string on: chunks(6)
\* yields a short last chunk when the length is not a multiple of 6
main_get_peers(peers) ==
    LET n == (Len(peers) + 5) \div 6
        chunk(r) == Slice(peers, 6 * (r - 1), Min(6 * r, Len(peers)))
    IN  IF \E r \in 1..n : main_peer_of_chunk(chunk(r)).tag = "panic"
            THEN [tag |-> "panic", peers |-> <<>>]
            ELSE [tag |-> "ok", peers |-> [r \in 1..n |-> main_peer_of_chunk(chunk(r)).peer]]

PeersInputs == UNION {[1..n -> PeerBytes] : n \in 0..MaxPeersLen}

PeersInit ==
    /\ OthersIdle
    /\ call \in {[fn |-> f, stage |-> "call", input |-> v, output |-> <<>>] :
                    f \in {"visit_bytes", "get_peers"}, v \in PeersInputs}

\* serde_bencode::from_bytes::<tracker::Response> reaching the peers field
peers_visit_bytes ==
    /\ call.fn = "visit_bytes" /\ call.stage = "call"
    /\ call' = [call EXCEPT !.stage = "return", !.output = Peers_visit_bytes(call.input)]
    /\ UNCHANGED <<dlVars, geo, hsk>>

\* the peers command of main.rs reaching the peers field
peers_get_peers ==
    /\ call.fn = "get_peers" /\ call.stage = "call"
    /\ call' = [call EXCEPT !.stage = "return", !.output = main_get_peers(call.input)]
    /\ UNCHANGED <<dlVars, geo, hsk>>

PeersNext == peers_visit_bytes \/ peers_get_peers

PeersSpec == PeersInit /\ [][PeersNext]_vars

\* C15: a peers byte string of length 6k decodes to exactly k peers in order,
\* peer r being the address of bytes 6r..6r+3 and the big-endian port of bytes
\* 6r+4..6r+5; a length that is not a multiple of 6 is an error, neither
\* truncated nor a crash.
C15_CompactPeers ==
    (call.fn \in {"visit_bytes", "get_peers"} /\ call.stage = "return") =>
        LET v == call.input
            out == call.output
        IN  IF Len(v) % 6 = 0
                THEN /\ out.tag = "ok"
                     /\ Len(out.peers) = Len(v) \div 6
                     /\ \A r \in 1..Len(out.peers) :
                            /\ out.peers[r].address =
                                   <<v[6*r - 5], v[6*r - 4], v[6*r - 3], v[6*r - 2]>>
                            /\ out.peers[r].port = v[6*r - 1] * 256 + v[6*r]
                ELSE out.tag = "err"

\* ---------------------------------------------------------------
\* bt_client.rs / tracker_info.rs: the tracker URL

\* hex::encode of one byte: two lowercase hexadecimal digits
HexDigitMut(n) == IF n < 10 THEN 48 + n ELSE 55 + n
HexDigit(n) == IF n < 10 THEN 48 + n ELSE 87 + n
hex_encode(bytes) ==
    Concat([k \in 1..Len(bytes) |-> <<HexDigit(bytes[k] \div 16), HexDigit(bytes[k] % 16)>>])

\* .chunks(2).map(|i| format!("%{}{}", i[0], i[1])).concat()
PercentGroups(hex) ==
    Concat([k \in 1..(Len(hex) \div 2) |-> <<37, hex[2 * k - 1], hex[2 * k]>>])

\* "%XX" as the url crate writes an escaped byte, in uppercase
UpperHexDigit(n) == IF n < 10 THEN 48 + n ELSE 55 + n
PercentEscape(c) ==
    <<37, UpperHexDigit(c \div 16), UpperHexDigit(c % 16)>>

\* the url crate parsing the query of its input: the bytes of the query
\* percent-encode set (controls, space, ", <, >, ' and non-ASCII) are
\* escaped, '%' and every other byte stay
Url_parse_query(q) ==
    Concat([k \in 1..Len(q) |->
              IF q[k] <= 32 \/ q[k] >= 127 \/ q[k] \in {34, 39, 60, 62}
                  THEN PercentEscape(q[k]) ELSE <<q[k]>>])

\* form_urlencoded::byte_serialize: letters, digits, '*', '-', '.', '_'
\* stay, a space becomes '+', every other byte is escaped
form_urlencode(s) ==
    Concat([k \in 1..Len(s) |->
              IF \/ s[k] \in 48..57 \/ s[k] \in 65..90 \/ s[k] \in 97..122
                 \/ s[k] \in {42, 45, 46, 95}
                  THEN <<s[k]>>
                  ELSE IF s[k] = 32 THEN <<43>> ELSE PercentEscape(s[k])])

\* query_pairs_mut().extend_pairs(params) on a URL that has a query
RECURSIVE extend_pairs(_)
extend_pairs(params) ==
    IF params = <<>> THEN <<>>
    ELSE <<38>> \o form_urlencode(Head(params)[1]) \o <<61>>
              \o form_urlencode(Head(params)[2]) \o extend_pairs(Tail(params))

\* Url::parse_with_params(input, params), input being url ++ "?" ++ query
Url_parse_with_params(url, query, params) ==
    url \o <<63>> \o Url_parse_query(query) \o extend_pairs(params)

\* the query the URL is parsed with: "info_hash=" and the 20 groups
TrackerQuery(info_hash_) ==
    <<105, 110, 102, 111, 95, 104, 97, 115, 104>> \o <<61>> \o PercentGroups(hex_encode(info_hash_))

\* the params: peer_id, port = "6881", uploaded = "0", downloaded = "0",
\* left, compact = "1"
TrackerParams(left_text) ==
    << <<<<112, 101, 101, 114, 95, 105, 100>>, PEER_ID>>,
       <<<<112, 111, 114, 116>>, <<54, 56, 56, 49>> >>,
       <<<<117, 112, 108, 111, 97, 100, 101, 100>>, <<48>> >>,
       <<<<100, 111, 119, 110, 108, 111, 97, 100, 101, 100>>, <<48>> >>,
       <<<<108, 101, 102, 116>>, left_text>>,
       <<<<99, 111, 109, 112, 97, 99, 116>>, <<49>> >> >>

\* tracker_url(announce_url, info_hash, left) of tracker_info.rs
tracker_url(announce_url, info_hash_, left) ==
    Url_parse_with_params(announce_url, TrackerQuery(info_hash_), TrackerParams(Dec(left)))

\* BtClient::tracker_url(announce_url, info_hash, left) of bt_client.rs:
\* left is an Option (-1 for None), None written as "0"
BtClient_tracker_url(announce_url, info_hash_, left) ==
    Url_parse_with_params(announce_url, TrackerQuery(info_hash_),
                          TrackerParams(IF left = -1 THEN <<48>> ELSE Dec(left)))

\* "http://127.0.0.1:44381/announce" and "http://t.co/a"
Announces ==
    { <<104, 116, 116, 112, 58, 47, 47, 49, 50, 55, 46, 48, 46, 48, 46, 49,
      58, 52, 52, 51, 56, 49, 47, 97, 110, 110, 111, 117, 110, 99, 101>>,
      <<104, 116, 116, 112, 58, 47, 47, 116, 46, 99, 111, 47, 97>> }

\* the info-hash of the test of bt_client.rs, a1 8a 79 fa 44 e0 45 b1 ..
TestInfoHash ==
    <<161, 138, 121, 250, 68, 224, 69, 177, 225, 56, 121, 22, 109, 53, 130, 62,
      132, 132, 25, 248>>

\* bytes that are URL-safe ('a', '0', '~', '-') and bytes that are not
HashByteSamples == {0, 10, 45, 48, 97, 126, 171, 255}

InfoHashSamples ==
    {[k \in 1..20 |-> IF k = 1 THEN x ELSE IF k = 20 THEN y ELSE TestInfoHash[k]] :
        x \in HashByteSamples, y \in HashByteSamples}

LeftSamples == {0, 7, 10, 999, 2097152}

TrackerUrlInit ==
    /\ OthersIdle
    /\ call \in {[fn |-> f, stage |-> "call",
                  input |-> [announce_url |-> a, info_hash |-> h, left |-> n],
                  output |-> <<>>] :
                    f \in {"tracker_url"}, a \in Announces,
                    h \in InfoHashSamples, n \in LeftSamples}
          \cup {[fn |-> f, stage |-> "call",
                  input |-> [announce_url |-> a, info_hash |-> h, left |-> n],
                  output |-> <<>>] :
                    f \in {"BtClient::tracker_url"}, a \in Announces,
                    h \in InfoHashSamples, n \in LeftSamples \cup {-1}}

ti_tracker_url ==
    /\ call.fn = "tracker_url" /\ call.stage = "call"
    /\ call' = [call EXCEPT
                  !.stage = "return",
                  !.output = tracker_url(call.input.announce_url, call.input.info_hash,
                                         call.input.left)]
    /\ UNCHANGED <<dlVars, geo, hsk>>

bt_tracker_url ==
    /\ call.fn = "BtClient::tracker_url" /\ call.stage = "call"
    /\ call' = [call EXCEPT
                  !.stage = "return",
                  !.output = BtClient_tracker_url(call.input.announce_url,
                                                  call.input.info_hash, call.input.left)]
    /\ UNCHANGED <<dlVars, geo, hsk>>

TrackerUrlNext == ti_tracker_url \/ bt_tracker_url

TrackerUrlSpec == TrackerUrlInit /\ [][TrackerUrlNext]_vars

\* the value of a lowercase hexadecimal digit, -1 for any other character
LowerHexValue(c) ==
    IF c \in 48..57 THEN c - 48 ELSE IF c \in 97..102 THEN c - 87 ELSE -1

\* the number a string of decimal digits writes, -1 when it is not canonical
RECURSIVE DecimalValue(_)
DecimalValue(s) ==
    IF s = <<>> \/ (Len(s) > 1 /\ s[1] = 48) \/ s[Len(s)] \notin 48..57 THEN -1
    ELSE IF Len(s) = 1 THEN s[1] - 48
    ELSE LET v == DecimalValue(SubSeq(s, 1, Len(s) - 1))
         IN  IF v = -1 /\ Len(s) > 1 THEN -1 ELSE 10 * v + (s[Len(s)] - 48)

\* "?info_hash="
UrlHead == <<63, 105, 110, 102, 111, 95, 104, 97, 115, 104, 61>>
\* "&peer_id=alice_is_1_feet_tall&port=6881&uploaded=0&downloaded=0&left="
UrlMiddle ==
    <<38, 112, 101, 101, 114, 95, 105, 100, 61, 97, 108, 105, 99, 101, 95,
      105, 115, 95, 49, 95, 102, 101, 101, 116, 95, 116, 97, 108, 108, 38,
      112, 111, 114, 116, 61, 54, 56, 56, 49, 38, 117, 112, 108, 111, 97,
      100, 101, 100, 61, 48, 38, 100, 111, 119, 110, 108, 111, 97, 100,
      101, 100, 61, 48, 38, 108, 101, 102, 116, 61>>
\* "&compact=1"
UrlTail == <<38, 99, 111, 109, 112, 97, 99, 116, 61, 49>>

MaxTokens == 5
MaxDigits == 3
MaxEntries == 3

NUMBER_HEADER == 105
NUMBER_TRAILER == 101
LIST_HEADER == 108
LIST_TRAILER == 101
DICT_HEADER == 100
DICT_TRAILER == 101

NoItem == [kind |-> "none", raw |-> <<>>, payload |-> <<>>, items |-> <<>>, map |-> <<>>]

Item_Bytes(raw, payload) ==
    [kind |-> "Bytes", raw |-> raw, payload |-> payload, items |-> <<>>, map |-> <<>>]
Item_Number(raw, payload) ==
    [kind |-> "Number", raw |-> raw, payload |-> payload, items |-> <<>>, map |-> <<>>]
Item_List(raw, items) ==
    [kind |-> "List", raw |-> raw, payload |-> <<>>, items |-> items, map |-> <<>>]
Item_Dict(raw, items, map) ==
    [kind |-> "Dict", raw |-> raw, payload |-> <<>>, items |-> items, map |-> map]

\* Item::raw_length
raw_length(item) == Len(item.raw)

DecodeOk(item, rest) == [tag |-> "ok", item |-> item, rest |-> rest]
DecodeErr == [tag |-> "err", item |-> NoItem, rest |-> <<>>]
DecodePanic == [tag |-> "panic", item |-> NoItem, rest |-> <<>>]

is_ascii_digit(c) == c \in 48..57

\* .iter().take_while(|i| i.is_ascii_digit()).count(), from position p on
RECURSIVE CountDigits(_, _)
CountDigits(w, p) ==
    IF p > Len(w) \/ ~is_ascii_digit(w[p]) THEN 0 ELSE 1 + CountDigits(w, p + 1)

\* .iter().take_while(|i| i != &&NUMBER_TRAILER).count(), from position p on
RECURSIVE CountUntilTrailer(_, _)
CountUntilTrailer(w, p) ==
    IF p > Len(w) \/ w[p] = NUMBER_TRAILER THEN 0 ELSE 1 + CountUntilTrailer(w, p + 1)

\* str::parse::<usize> of a string of digits
RECURSIVE parse_usize(_)
parse_usize(s) ==
    IF s = <<>> THEN 0
    ELSE 10 * parse_usize(SubSeq(s, 1, Len(s) - 1)) + (s[Len(s)] - 48)

\* ItemIterator::decode_bytes; a slice that ends past the data panics
decode_bytes(w) ==
    LET number_len == CountDigits(w, 1)
        len == parse_usize(Slice(w, 0, number_len))
    IN  IF number_len + 1 + len > Len(w) THEN DecodePanic
        ELSE DecodeOk(Item_Bytes(Slice(w, 0, number_len + 1 + len),
                                 Slice(w, number_len + 1, number_len + 1 + len)),
                      Slice(w, number_len + 1 + len, Len(w)))

decode_numberMut(w) ==
    LET payload_len == CountUntilTrailer(w, 2)
    IN  IF payload_len + 2 > Len(w) THEN DecodePanic
        ELSE DecodeOk(Item_Number(Slice(w, 0, payload_len + 1),
                                  Slice(w, 1, payload_len + 1)),
                      Slice(w, payload_len + 2, Len(w)))

\* ItemIterator::decode_number
decode_number(w) ==
    LET payload_len == CountUntilTrailer(w, 2)
    IN  IF payload_len + 2 > Len(w) THEN DecodePanic
        ELSE DecodeOk(Item_Number(Slice(w, 0, payload_len + 2),
                                  Slice(w, 1, payload_len + 1)),
                      Slice(w, 1 + payload_len + 1, Len(w)))

\* HashMap::insert: the value replaces the one the key had
HashMap_insert(map, key, value) ==
    [k \in DOMAIN map \cup {key} |-> IF k = key THEN value ELSE map[k]]

\* std::str::from_utf8(payload).expect(..) on the bytes the model uses:
\* ASCII is valid, a byte from 0x80 on is taken as invalid
is_utf8(payload) == \A k \in 1..Len(payload) : payload[k] < 128

RECURSIVE decode_next(_)
RECURSIVE decode_list_while(_, _, _, _)
RECURSIVE decode_dict_while(_, _, _, _, _)

\* the while loop of decode_list: working_data[0] of empty data panics
decode_list_while(raw, wd, end, items) ==
    IF wd = <<>> THEN DecodePanic
    ELSE IF wd[1] = LIST_TRAILER
        THEN DecodeOk(Item_List(Slice(raw, 0, end), items), Slice(wd, 1, Len(wd)))
    ELSE LET item == decode_next(wd)
         IN  IF item.tag # "ok" THEN item
             ELSE decode_list_while(raw, item.rest, end + raw_length(item.item),
                                    Append(items, item.item))

\* ItemIterator::decode_list
decode_list(w) == decode_list_while(w, Slice(w, 1, Len(w)), 2, <<>>)

\* the while loop of decode_dict
decode_dict_while(raw, wd, end, items, map) ==
    IF wd = <<>> THEN DecodePanic
    ELSE IF wd[1] = DICT_TRAILER
        THEN DecodeOk(Item_Dict(Slice(raw, 0, end), items, map), Slice(wd, 1, Len(wd)))
    ELSE LET key == decode_next(wd)
         IN  IF key.tag # "ok" THEN key
             ELSE IF key.item.kind # "Bytes" THEN DecodeErr
             ELSE IF ~is_utf8(key.item.payload) THEN DecodePanic
             ELSE LET value == decode_next(key.rest)
                  IN  IF value.tag # "ok" THEN value
                      ELSE decode_dict_while(
                               raw, value.rest,
                               end + Len(key.item.raw) + raw_length(value.item),
                               items \o <<key.item, value.item>>,
                               HashMap_insert(map, key.item.payload, value.item))

\* ItemIterator::decode_dict
decode_dict(w) == decode_dict_while(w, Slice(w, 1, Len(w)), 2, <<>>, <<>>)

\* ItemIterator::decode_next
decode_next(w) ==
    IF w = <<>> THEN DecodePanic
    ELSE IF is_ascii_digit(w[1]) THEN decode_bytes(w)
    ELSE IF w[1] = NUMBER_HEADER THEN decode_number(w)
    ELSE IF w[1] = LIST_HEADER THEN decode_list(w)
    ELSE IF w[1] = DICT_HEADER THEN decode_dict(w)
    ELSE DecodeErr

\* "d", "l", "e", "i1e", "1:a", "2:bc"
BencodeTokens ==
    { <<100>>, <<108>>, <<101>>, <<105, 49, 101>>, <<49, 58, 97>>, <<50, 58, 98, 99>> }

TokenInputs ==
    {Concat(ts) : ts \in UNION {[1..n -> BencodeTokens] : n \in 1..MaxTokens}}

\* '-', '0', '2', '5', 'x'
IntChars == {45, 48, 50, 53, 120}

\* <<>> and "bar"
Trailing == { <<>>, <<98, 97, 114>> }

IntegerInputs ==
    {<<NUMBER_HEADER>> \o s \o <<NUMBER_TRAILER>> \o t :
        s \in UNION {[1..n -> IntChars] : n \in 0..MaxDigits}, t \in Trailing}

\* "1:a", "1:b"
DictKeys == { <<49, 58, 97>>, <<49, 58, 98>> }

\* "i1e", "i2e", "le"
DictValues == { <<105, 49, 101>>, <<105, 50, 101>>, <<108, 101>> }

DictInputs ==
    {<<DICT_HEADER>> \o Concat([k \in 1..Len(es) |-> es[k][1] \o es[k][2]])
         \o <<DICT_TRAILER>> :
        es \in UNION {[1..n -> DictKeys \X DictValues] : n \in 0..MaxEntries}}

BencodeInit ==
    /\ OthersIdle
    /\ call \in {[fn |-> "ItemIterator::next", stage |-> "call", input |-> c,
                  output |-> [pos |-> 0, items |-> <<>>]] :
                    c \in TokenInputs \cup IntegerInputs \cup DictInputs}

\* ItemIterator::next: Some(self.decode_next()); the caller stops at an error
\* and when no input is left
iterator_next ==
    /\ call.fn = "ItemIterator::next" /\ call.stage = "call"
    /\ LET content == call.input
           pos == call.output.pos
           r == decode_next(Slice(content, pos, Len(content)))
           after == IF r.tag = "ok" THEN Len(content) - Len(r.rest) ELSE pos
       IN  call' = [call EXCEPT
                      !.stage = IF r.tag = "ok" /\ after < Len(content)
                                    THEN "call" ELSE "end",
                      !.output = [pos |-> after,
                                  items |-> Append(call.output.items,
                                                   [tag |-> r.tag, item |-> r.item,
                                                    from |-> pos])]]
    /\ UNCHANGED <<dlVars, geo, hsk>>

BencodeNext == iterator_next

BencodeSpec == BencodeInit /\ [][BencodeNext]_vars

\* the raw slices of the items, one after the other
RawsOf(items) == Concat([k \in 1..Len(items) |-> items[k].raw])

\* the item that starts at offset from of content keeps that token's bytes:
\* a Bytes is its length digits, one separator and that many bytes; a Number
\* is 'i', bytes without 'e', and 'e'; a List or Dict is its header, the raw
\* slices of the tokens read inside it, and its trailer, each of those
\* tokens keeping its own bytes at its own offset
RECURSIVE RawPreserved(_, _, _)
RawPreserved(item, content, from) ==
    /\ from + Len(item.raw) <= Len(content)
    /\ item.raw = Slice(content, from, from + Len(item.raw))
    /\ CASE item.kind = "Bytes" ->
              LET n == CountDigits(item.raw, 1)
              IN  /\ n >= 1
                  /\ Len(item.raw) = n + 1 + Len(item.payload)
                  /\ parse_usize(Slice(item.raw, 0, n)) = Len(item.payload)
                  /\ item.payload = Slice(item.raw, n + 1, Len(item.raw))
         [] item.kind = "Number" ->
              /\ item.raw = <<105>> \o item.payload \o <<101>>
              /\ \A k \in 1..Len(item.payload) : item.payload[k] # 101
         [] item.kind \in {"List", "Dict"} ->
              /\ item.raw = <<IF item.kind = "List" THEN 108 ELSE 100>>
                                \o RawsOf(item.items) \o <<101>>
              /\ \A k \in 1..Len(item.items) :
                    RawPreserved(item.items[k], content,
                                 from + 1 + Len(RawsOf(SubSeq(item.items, 1, k - 1))))
              /\ item.kind = "Dict" =>
                    /\ Len(item.items) % 2 = 0
                    /\ \A k \in 1..Len(item.items) :
                          k % 2 = 0 =>
                              \/ item.map[item.items[k - 1].payload] = item.items[k]
                              \/ \E j \in 1..Len(item.items) :
                                    /\ j % 2 = 0 /\ j # k
                                    /\ item.items[j - 1].payload = item.items[k - 1].payload
                    /\ \A key \in DOMAIN item.map :
                          \E k \in 1..Len(item.items) :
                              /\ k % 2 = 0 /\ item.items[k - 1].payload = key
                              /\ item.items[k] = item.map[key]
         [] OTHER -> FALSE

\* C17: every node of every decoded tree has as raw slice exactly the input
\* bytes of its token, decoding resumes right after it, and the raw slice of
\* a list or dictionary is its 2 framing bytes around the raw slices of its
\* children, keys and values in turn for a dictionary.
C17_RawPreserved ==
    call.fn = "ItemIterator::next" =>
        \A k \in 1..Len(call.output.items) :
            LET r == call.output.items[k]
            IN  /\ r.from = IF k = 1 THEN 0
                            ELSE call.output.items[k - 1].from
                                     + Len(call.output.items[k - 1].item.raw)
                /\ r.tag = "ok" =>
                      /\ RawPreserved(r.item, call.input, r.from)
                      /\ k = Len(call.output.items) =>
                            call.output.pos = r.from + Len(r.item.raw)

\* b"d1:ai1ee2:bc": a dictionary with one key and value was decoded, and
\* then the token that follows it, from offset 8 on
C17_Witness ==
    /\ call.fn = "ItemIterator::next" /\ call.stage = "end"
    /\ call.input = <<100, 49, 58, 97, 105, 49, 101, 101, 50, 58, 98, 99>>
    /\ Len(call.output.items) = 2
    /\ call.output.items[1].tag = "ok" /\ call.output.items[2].tag = "ok"
    /\ call.output.items[1].item.kind = "Dict"
    /\ Len(call.output.items[1].item.items) = 2
    /\ call.output.items[2].item.kind = "Bytes"
    /\ call.output.items[2].from = 8

\* a canonical integer: an optional '-', then digits, no leading zero but
\* for the literal 0, and not -0
CanonicalInteger(s) ==
    LET d == IF s # <<>> /\ s[1] = 45 THEN Tail(s) ELSE s
    IN  /\ d # <<>>
        /\ \A k \in 1..Len(d) : d[k] \in 48..57
        /\ d[1] = 48 => (Len(d) = 1 /\ s = d)

\* C18: an integer token i<digits>e is decoded only when its digits are a
\* canonical integer, to the number they write, with the input after the
\* token left unread; i-0e, leading zeros, no digits and characters that are
\* not digits are an error.
C18_CanonicalIntegers ==
    (/\ call.fn = "ItemIterator::next"
     /\ call.input[1] = NUMBER_HEADER
     /\ Len(call.output.items) >= 1) =>
        LET s == Slice(call.input, 1, 1 + CountUntilTrailer(call.input, 2))
            r == call.output.items[1]
        IN  IF CanonicalInteger(s)
                THEN /\ r.tag = "ok" /\ r.item.kind = "Number"
                     /\ r.item.payload = s
                     /\ Len(r.item.raw) = Len(s) + 2
                ELSE r.tag = "err"

\* the place in items of the first value token whose key is key
FirstOccurrence(items, key) ==
    CHOOSE k \in 1..Len(items) :
        /\ k % 2 = 0 /\ items[k - 1].payload = key
        /\ \A j \in 1..(k - 1) : j % 2 = 0 => items[j - 1].payload # key

\* C19: a dictionary of keys and values, the keys in any order and some of
\* them more than once, is decoded, and the decoded dictionary holds for
\* every key the value of its first occurrence.
C19_FirstOccurrenceKept ==
    (/\ call.fn = "ItemIterator::next"
     /\ call.input \in DictInputs
     /\ Len(call.output.items) >= 1) =>
        LET r == call.output.items[1]
        IN  /\ r.tag = "ok" /\ r.item.kind = "Dict"
            /\ \A k \in 1..Len(r.item.items) :
                  k % 2 = 1 => r.item.items[k].payload \in DOMAIN r.item.map
            /\ \A key \in DOMAIN r.item.map :
                  r.item.map[key] = r.item.items[FirstOccurrence(r.item.items, key)]

\* ---------------------------------------------------------------
\* The info-hash of a metainfo file, by Info::parse of main.rs (the hash of
\* the raw info token) and by Torrent::info_hash of torrent.rs (the hash of
\* the typed Info written again)

\* "announce", "info", "length", "name", "piece length", "pieces", "private"
Key_announce == <<97, 110, 110, 111, 117, 110, 99, 101>>
Key_info == <<105, 110, 102, 111>>
Key_length == <<108, 101, 110, 103, 116, 104>>
Key_name == <<110, 97, 109, 101>>
Key_piece_length == <<112, 105, 101, 99, 101, 32, 108, 101, 110, 103, 116, 104>>
Key_pieces == <<112, 105, 101, 99, 101, 115>>
Key_private == <<112, 114, 105, 118, 97, 116, 101>>

\* HashMap::get
HashMap_get(map, key) == IF key \in DOMAIN map THEN map[key] ELSE NoItem

\* str::parse of the payload of a Number; unwrap panics on anything but digits
IsDigits(s) == s # <<>> /\ \A k \in 1..Len(s) : is_ascii_digit(s[k])

\* Info::parse(content) of main.rs: [tag, hash, len, piece_len, pieces_hashes]
Info_parse(content) ==
    LET first == decode_next(content)
        failed(tag) == [tag |-> tag, hash |-> <<>>, len |-> 0, piece_len |-> 0,
                        pieces_hashes |-> <<>>]
    IN  IF first.tag = "panic" THEN failed("panic")
        ELSE IF first.tag # "ok" \/ first.item.kind # "Dict" THEN failed("err")
        ELSE LET tracker == HashMap_get(first.item.map, Key_announce)
                 info == HashMap_get(first.item.map, Key_info)
             IN  IF tracker.kind # "Bytes" \/ info.kind # "Dict" THEN failed("err")
                 ELSE LET length == HashMap_get(info.map, Key_length)
                          piece_len == HashMap_get(info.map, Key_piece_length)
                          pieces == HashMap_get(info.map, Key_pieces)
                      IN  IF length.kind # "Number" THEN failed("err")
                          ELSE IF ~IsDigits(length.payload) THEN failed("panic")
                          ELSE IF piece_len.kind = "Number" /\ ~IsDigits(piece_len.payload)
                              THEN failed("panic")
                          ELSE [tag |-> "ok",
                                hash |-> hash(info.raw),
                                len |-> parse_usize(length.payload),
                                piece_len |-> IF piece_len.kind = "Number"
                                                  THEN parse_usize(piece_len.payload)
                                                  ELSE 0,
                                pieces_hashes |->
                                    IF pieces.kind = "Bytes"
                                        THEN [k \in 1..((Len(pieces.payload) + 19) \div 20) |->
                                                 Slice(pieces.payload, 20 * (k - 1),
                                                       Min(20 * k, Len(pieces.payload)))]
                                        ELSE <<>>]

\* Torrent::from_bytes(content): serde_bencode::from_bytes::<Torrent> of a
\* single-file metainfo.  The fields are taken by name from the dictionaries
\* of the file, in whatever order they come; keys that are no field of
\* Torrent, Info or Keys are skipped; Hashes wants a multiple of 20 bytes.
Torrent_from_bytes(content) ==
    LET first == decode_next(content)
        failed == [tag |-> "err", announce |-> <<>>, info |-> <<>>]
    IN  IF first.tag # "ok" \/ first.item.kind # "Dict" THEN failed
        ELSE LET announce == HashMap_get(first.item.map, Key_announce)
                 info == HashMap_get(first.item.map, Key_info)
             IN  IF announce.kind # "Bytes" \/ info.kind # "Dict" THEN failed
                 ELSE LET name == HashMap_get(info.map, Key_name)
                          piece_len == HashMap_get(info.map, Key_piece_length)
                          pieces == HashMap_get(info.map, Key_pieces)
                          length == HashMap_get(info.map, Key_length)
                      IN  IF \/ name.kind # "Bytes"
                             \/ piece_len.kind # "Number" \/ ~IsDigits(piece_len.payload)
                             \/ pieces.kind # "Bytes" \/ Len(pieces.payload) % 20 # 0
                             \/ length.kind # "Number" \/ ~IsDigits(length.payload)
                              THEN failed
                          ELSE [tag |-> "ok",
                                announce |-> announce.payload,
                                info |-> [name |-> name.payload,
                                          piece_length |-> parse_usize(piece_len.payload),
                                          pieces |-> [k \in 1..(Len(pieces.payload) \div 20) |->
                                                        Slice(pieces.payload, 20 * (k - 1), 20 * k)],
                                          keys |-> SingleFile(parse_usize(length.payload))]]

\* "http://t.co/a"
FileAnnounce == <<104, 116, 116, 112, 58, 47, 47, 116, 46, 99, 111, 47, 97>>

\* the keys and values of the info dictionary of a file made for torrent t,
\* in canonical order, with "private" = 1 at the end when extra is set
InfoEntries(t, extra) ==
    << BeBytes(Key_length) \o BeInt(t.keys.length),
       BeBytes(Key_name) \o BeBytes(t.name),
       BeBytes(Key_piece_length) \o BeInt(t.piece_length),
       BeBytes(Key_pieces) \o BeBytes(Concat(t.pieces)) >>
        \o (IF extra THEN << BeBytes(Key_private) \o BeInt(1) >> ELSE <<>>)

Orders(n) == {f \in [1..n -> 1..n] : \A i, j \in 1..n : i # j => f[i] # f[j]}

\* a metainfo file, its info dictionary written in the order f
MetainfoFile(entries, f) ==
    <<DICT_HEADER>> \o BeBytes(Key_announce) \o BeBytes(FileAnnounce)
        \o BeBytes(Key_info)
        \o <<DICT_HEADER>> \o Concat([k \in 1..Len(entries) |-> entries[f[k]]])
        \o <<DICT_TRAILER>> \o <<DICT_TRAILER>>

FileTorrents == {MkTorrent(n, pl) : n \in 1..MaxFileLen, pl \in 1..MaxPieceLen}

MetainfoFiles ==
    UNION {{MetainfoFile(InfoEntries(t, extra), f) : f \in Orders(Len(InfoEntries(t, extra)))} :
              t \in FileTorrents, extra \in BOOLEAN}

InfoHashInit ==
    /\ OthersIdle
    /\ call \in {[fn |-> "info_hash", stage |-> "call", input |-> c,
                  output |-> [parsed |-> <<>>, typed |-> <<>>]] : c \in MetainfoFiles}

\* the info command of main.rs: Info::parse(content)
info_parse ==
    /\ call.fn = "info_hash" /\ call.stage = "call"
    /\ call.output.parsed = <<>>
    /\ call' = [call EXCEPT !.output.parsed = Info_parse(call.input)]
    /\ UNCHANGED <<dlVars, geo, hsk>>

\* Torrent::from_bytes(content) and then Torrent::info_hash
torrent_info_hash ==
    /\ call.fn = "info_hash" /\ call.stage = "call"
    /\ call.output.typed = <<>>
    /\ LET t == Torrent_from_bytes(call.input)
       IN  call' = [call EXCEPT
                      !.output.typed =
                          IF t.tag = "ok"
                              THEN [tag |-> "ok", hash |-> info_hash(t.info)]
                              ELSE [tag |-> "err", hash |-> <<>>]]
    /\ UNCHANGED <<dlVars, geo, hsk>>

InfoHashNext == info_parse \/ torrent_info_hash

InfoHashSpec == InfoHashInit /\ [][InfoHashNext]_vars

\* C20: for every parsed metainfo the hash of the raw info token and the hash
\* of the info dictionary written again from the typed model are the same,
\* whatever keys the info dictionary has and in whatever order.
C20_InfoHashPathsAgree ==
    (/\ call.fn = "info_hash"
     /\ call.output.parsed # <<>> /\ call.output.typed # <<>>) =>
        /\ call.output.parsed.tag = "ok"
        /\ call.output.typed.tag = "ok"
        /\ call.output.parsed.hash = call.output.typed.hash

\* C21: for every input, truncated and malformed input included, a read of
\* the decoder returns a decoded item or an error; it never aborts on a read
\* outside the input.
C21_NeverAborts ==
    call.fn = "ItemIterator::next" =>
        \A k \in 1..Len(call.output.items) :
            call.output.items[k].tag \in {"ok", "err"}

\* ---------------------------------------------------------------
\* bt_client.rs: handshake, the exchange of shake_hands on one stream
\* call.input is [info_hash, peer]: peer is every byte the peer sends before
\* it closes; call.output is [tx, rx, res, peer_id]: the bytes written, the
\* bytes of the stream not read, what shake_hands returned, and what
\* handshake returned

\* a read that takes every byte the stream holds
read_exactMut(stream, n) ==
    IF Len(stream) < n
        THEN [tag |-> "err", buf |-> <<>>, rest |-> <<>>]
        ELSE [tag |-> "ok", buf |-> stream, rest |-> <<>>]

\* stream.read_exact(&mut buf) with a buf of n bytes: an error when the
\* stream ends before n bytes, the stream being used up then
read_exact(stream, n) ==
    IF Len(stream) < n
        THEN [tag |-> "err", buf |-> <<>>, rest |-> <<>>]
        ELSE [tag |-> "ok", buf |-> Slice(stream, 0, n), rest |-> Slice(stream, n, Len(stream))]

\* what a peer sends after its handshake: nothing, a BitField frame, or a
\* single byte
AfterReply == { <<>>, <<0, 0, 0, 2, 5, 255>>, <<9>> }

\* the peer's bytes: 68 bytes that are a handshake or are not, and what
\* follows them, or a stream that ends after 67 bytes
ShakeStreams ==
    {r \o a : r \in PeerReplies \cup {[k \in 1..68 |-> k]}, a \in AfterReply}
        \cup {Slice(r, 0, 67) : r \in PeerReplies}

ShakeInit ==
    /\ OthersIdle
    /\ call \in {[fn |-> "handshake", stage |-> "call",
                  input |-> [info_hash |-> ih, peer |-> s],
                  output |-> [tx |-> <<>>, rx |-> s,
                              res |-> [tag |-> "none", buf |-> <<>>],
                              peer_id |-> <<>>]] :
                    ih \in HandshakeInfoHashes, s \in ShakeStreams}

\* shake_hands: write_all of Handshake::with_extension(..).to_bytes(), flush
shake_write_all ==
    /\ call.fn = "handshake" /\ call.stage = "call"
    /\ call' = [call EXCEPT
                  !.stage = "written",
                  !.output.tx = call.output.tx
                                    \o Handshake_to_bytes(
                                           Handshake_with_extension(call.input.info_hash,
                                                                    PEER_ID, "None"))]
    /\ UNCHANGED <<dlVars, geo, hsk>>

\* shake_hands: read_exact into [0u8; 68], Ok(buf) or the error
shake_read_exact ==
    /\ call.fn = "handshake" /\ call.stage = "written"
    /\ LET r == read_exact(call.output.rx, 68)
       IN  call' = [call EXCEPT
                      !.stage = IF r.tag = "ok" THEN "read" ELSE "err",
                      !.output.rx = r.rest,
                      !.output.res = [tag |-> r.tag, buf |-> r.buf]]
    /\ UNCHANGED <<dlVars, geo, hsk>>

\* handshake: Ok(Handshake::from(&res).peer_id)
handshake_return ==
    /\ call.fn = "handshake" /\ call.stage = "read"
    /\ call' = [call EXCEPT
                  !.stage = "return",
                  !.output.peer_id = Handshake_from(call.output.res.buf).peer_id]
    /\ UNCHANGED <<dlVars, geo, hsk>>

ShakeNext == shake_write_all \/ shake_read_exact \/ handshake_return

ShakeSpec == ShakeInit /\ [][ShakeNext]_vars

\* C22: the client first writes exactly its 68-byte handshake, then reads
\* exactly 68 bytes, which it returns unchanged; the peer id reported is
\* bytes 48..68 of the reply; no further byte of the stream is taken.
C22_HandshakeExchange ==
    call.fn = "handshake" =>
        LET peer == call.input.peer
            out == call.output
            own == <<19>> \o ProtocolName \o Zeros(8) \o call.input.info_hash \o PEER_ID
        IN  /\ call.stage = "call" => (out.tx = <<>> /\ out.rx = peer)
            /\ call.stage # "call" => (out.tx = own /\ Len(out.tx) = 68)
            /\ call.stage = "written" => out.rx = peer
            /\ call.stage \in {"read", "return"} =>
                  /\ Len(peer) >= 68
                  /\ out.res.tag = "ok"
                  /\ out.res.buf = SubSeq(peer, 1, 68)
                  /\ out.rx = SubSeq(peer, 69, Len(peer))
            /\ call.stage = "return" =>
                  out.peer_id = [k \in 1..20 |-> peer[48 + k]]
            /\ call.stage = "err" => Len(peer) < 68

\* a reply with a peer id that is not the client's, followed by a BitField
\* frame that stays on the stream
C22_Witness ==
    /\ call.fn = "handshake" /\ call.stage = "return"
    /\ call.output.peer_id = [k \in 1..20 |-> 39 + k]
    /\ call.output.rx = <<0, 0, 0, 2, 5, 255>>

(***************************************************************************)
(* The piece session: completion, the Piece arm, the order of the writes   *)
(***************************************************************************)

\* the size of the piece the session is for
SessionPieceSize ==
    Min(piece_length(torrent), total_len(torrent) - cur * piece_length(torrent))

\* C23: the session completes exactly when the lengths of the recorded
\* (offset, length) blocks sum to piece_size: while the sum differs no piece
\* bytes are returned, and when it is equal the next step of the session is
\* to return the buffer, whose length is piece_size, with no read or write.
C23_Step ==
    LET sum == SumSnd(collected_blocks) IN
    /\ (pc = "loop" /\ sum = SessionPieceSize) =>
           /\ pc' = "piece_ok"
           /\ piece' = piece /\ Len(piece) = SessionPieceSize
           /\ rx' = rx /\ tx' = tx
    /\ (pc = "loop" /\ sum # SessionPieceSize) => pc' # "piece_ok"
    /\ pc' = "piece_ok" => pc \in {"loop", "piece_ok"}
    /\ (op = "download_piece" /\ result.status # "ok" /\ result'.status = "ok") =>
           /\ pc = "piece_ok"
           /\ sum = SessionPieceSize
           /\ result'.val = piece /\ Len(piece) = SessionPieceSize

C23_CompletesOnSum == [][C23_Step]_vars

\* a piece returned from two recorded blocks
C23_Witness ==
    /\ op = "download_piece" /\ result.status = "ok"
    /\ Cardinality(collected_blocks) = 2

\* the recorded lengths sum to more than piece_size and the session goes on
C23_WitnessOver ==
    /\ pc = "loop" /\ SumSnd(collected_blocks) > Len(piece)

\* C24: while the session awaits blocks, a Piece for the target index is
\* copied and recorded only if it fits inside the piece; a Piece that starts
\* at or after the end of the piece (every such block of the peer holds at
\* least one byte) ends the session with an error, not with an access
\* outside the buffer.
C24_PieceFitsOrError ==
    (/\ matched.state = "WaitingForPieceBlock"
     /\ matched.msg.type = "Piece"
     /\ matched.msg.index = cur
     /\ matched.msg.begin >= SessionPieceSize) =>
        /\ pc = "done"
        /\ result.status = "err"

\* C25: when the session returns its buffer, every position 0..piece_size of
\* it lies inside a recorded block, whatever Piece messages the peer sent
\* (the peer of the model sends no zero byte, so no position holds the
\* zero the buffer was filled with).
C25_EveryByteWritten ==
    pc = "piece_ok" =>
        \A p \in 0..(Len(piece) - 1) :
            /\ \E b \in collected_blocks : b[1] <= p /\ p < b[1] + b[2]
            /\ piece[p + 1] # 0

\* the bytes are Request frames and nothing else: frames of 17 bytes with
\* the length prefix 13 and the id 6
OnlyRequests(bytes) ==
    /\ Len(bytes) % 17 = 0
    /\ \A k \in 0..((Len(bytes) \div 17) - 1) :
          SubSeq(bytes, 17 * k + 1, 17 * k + 5) = <<0, 0, 0, 13, 6>>

\* what the session has written after the 68 bytes of shake_hands, by the
\* state it is in
TxOrdered ==
    pc \in {"loop", "piece_ok"} =>
        /\ Len(tx) >= 68
        /\ LET after == SubSeq(tx, 69, Len(tx)) IN
           /\ state = "WaitingForBitField" => after = <<>>
           /\ state = "WaitingForUnchoke" => after = <<0, 0, 0, 1, 2>>
           /\ state = "WaitingForPieceBlock" =>
                 /\ Len(after) >= 5 /\ SubSeq(after, 1, 5) = <<0, 0, 0, 1, 2>>
                 /\ OnlyRequests(SubSeq(after, 6, Len(after)))

\* C26: the writes of a piece session follow what it has received: nothing is
\* written before a BitField is received, Interested is written once and
\* before any Request, no Request is written before Unchoke is received, and
\* nothing is written once the session awaits Piece blocks.
C26_Step ==
    /\ TxOrdered /\ TxOrdered'
    /\ (pc = "loop" /\ tx' # tx) =>
          /\ matched'.state = state
          /\ \/ /\ state = "WaitingForBitField" /\ matched'.msg.type = "BitField"
                /\ tx' = tx \o <<0, 0, 0, 1, 2>>
                /\ state' = "WaitingForUnchoke"
             \/ /\ state = "WaitingForUnchoke" /\ matched'.msg.type = "Unchoke"
                /\ Len(tx') > Len(tx) /\ SubSeq(tx', 1, Len(tx)) = tx
                /\ OnlyRequests(SubSeq(tx', Len(tx) + 1, Len(tx')))
                /\ state' = "WaitingForPieceBlock"
    /\ (pc = "loop" /\ state = "WaitingForPieceBlock") =>
          (tx' = tx /\ (pc' \in {"loop", "piece_ok"} => state' = state))
    /\ pc = "piece_ok" => tx' = tx

C26_WritesOrdered == [][C26_Step]_vars

\* a session that awaits blocks has recorded two of them
C26_Witness ==
    /\ pc = "loop" /\ state = "WaitingForPieceBlock"
    /\ Cardinality(collected_blocks) = 2
    /\ Len(tx) > 68 + 5

(***************************************************************************)
(* bt_client.rs: piece_download on a stream that holds the peer's frames   *)
(* before the call, as the mock stream of the tests does.                  *)
(* call.input is [torrent, block_size, index, frames, stream, closed]:     *)
(* stream is the bytes of the frames, whole or less MaxCut bytes, and      *)
(* closed says whether a read at the end of the stream fails or waits.     *)
(* call.output is [rest, tx, state, piece, blocks, reads]: the bytes not   *)
(* read, the bytes written, the locals of piece_download and the number    *)
(* of calls of Message::read_from that returned.                           *)
(***************************************************************************)
\* Piece frames a mock stream holds after BitField and Unchoke
MaxReplies == 3

MockTorrent == MkTorrent(SessFileLen, SessPieceLen)

\* the torrent of the session, and a metainfo the parser accepts as well:
\* the same with piece length 0
MockTorrents == {MockTorrent, [MockTorrent EXCEPT !.piece_length = 0]}

\* the replies to the Requests, a block that overlaps the first reply, and
\* a Choke
MockReplies(index) ==
    MatchingReplies(MockTorrent, SessBlockSize, index)
        \cup {Piece(index, 0, RightBlock(MockTorrent, index, 0, 1)), Choke}

MockFrames(index) ==
    { <<BitField(<<>>), Unchoke>> \o s :
        s \in UNION { [1..n -> MockReplies(index)] : n \in 0..MaxReplies } }
    \cup { <<>>, <<Unchoke>>, <<BitField(<<255>>)>> }

RECURSIVE FrameBytes(_)
FrameBytes(frames) ==
    IF frames = <<>> THEN <<>>
    ELSE Message_to_bytes(Head(frames)) \o FrameBytes(Tail(frames))

MockInit ==
    /\ OthersIdle
    /\ \E index \in 0..pieces_count(MockTorrent), closed \in BOOLEAN, cut \in {0, MaxCut} :
       \E frames \in MockFrames(index), t \in MockTorrents :
          LET bytes == FrameBytes(frames)
              stream == Slice(bytes, 0, Len(bytes) - Min(cut, Len(bytes)))
          IN  call = [fn |-> "piece_download", stage |-> "call",
                      input |-> [torrent |-> t, block_size |-> SessBlockSize,
                                 index |-> index, frames |-> frames,
                                 stream |-> stream, closed |-> closed],
                      output |-> [rest |-> stream, tx |-> <<>>,
                                  state |-> "WaitingForBitField", piece |-> <<>>,
                                  blocks |-> {}, reads |-> 0]]

\* piece_download up to its loop: the state, pieces_info().get(index), the
\* buffer and the set
pd_begin ==
    /\ call.fn = "piece_download" /\ call.stage = "call"
    /\ LET pi == pieces_info(call.input.torrent) IN
       IF pi.tag = "panic"
       THEN call' = [call EXCEPT !.stage = "panic"]
       ELSE IF call.input.index >= Len(pi.val)
       THEN call' = [call EXCEPT !.stage = "err"]
       ELSE call' = [call EXCEPT
                       !.stage = "loop",
                       !.output.state = "WaitingForBitField",
                       !.output.piece = Zeros(pi.val[call.input.index + 1].length),
                       !.output.blocks = {}]
    /\ UNCHANGED <<dlVars, geo, hsk>>

\* a loop that reads a message before it tests the sum
pd_readMut ==
    /\ call.fn = "piece_download" /\ call.stage = "loop"
    /\ LET in == call.input
           out == call.output
           r == Message_read_from(out.rest, in.closed)
           m == Match(in.torrent, in.block_size, out.state, r.msg, in.index,
                      out.piece, out.blocks)
       IN  IF r.kind = "ok" /\ m.kind = "cont"
           THEN call' = [call EXCEPT
                           !.output.rest = Slice(out.rest, r.used, Len(out.rest)),
                           !.output.tx = out.tx \o m.write,
                           !.output.state = m.state,
                           !.output.piece = m.piece,
                           !.output.blocks = m.blocks,
                           !.output.reads = out.reads + 1]
           ELSE call' = [call EXCEPT !.stage = "err"]
    /\ UNCHANGED <<dlVars, geo, hsk>>

\* one turn of the loop when the sum is not piece.len(): Message::read_from
\* waits, fails or gives a message, and the message is matched
pd_read ==
    /\ call.fn = "piece_download" /\ call.stage = "loop"
    /\ ~Collected(call.output.blocks, call.output.piece)
    /\ LET in == call.input
           out == call.output
           r == Message_read_from(out.rest, in.closed)
           m == Match(in.torrent, in.block_size, out.state, r.msg, in.index,
                      out.piece, out.blocks)
       IN  IF r.kind = "block" THEN call' = [call EXCEPT !.stage = "blocked"]
           ELSE IF r.kind = "panic" THEN call' = [call EXCEPT !.stage = "panic"]
           ELSE IF r.kind # "ok" THEN call' = [call EXCEPT !.stage = "err"]
           ELSE IF m.kind = "panic"
           THEN call' = [call EXCEPT !.stage = "panic",
                                     !.output.rest = Slice(out.rest, r.used, Len(out.rest)),
                                     !.output.reads = out.reads + 1]
           ELSE IF m.kind = "err"
           THEN call' = [call EXCEPT !.stage = "err",
                                     !.output.rest = Slice(out.rest, r.used, Len(out.rest)),
                                     !.output.reads = out.reads + 1]
           ELSE call' = [call EXCEPT
                           !.output.rest = Slice(out.rest, r.used, Len(out.rest)),
                           !.output.tx = out.tx \o m.write,
                           !.output.state = m.state,
                           !.output.piece = m.piece,
                           !.output.blocks = m.blocks,
                           !.output.reads = out.reads + 1]
    /\ UNCHANGED <<dlVars, geo, hsk>>

\* a session that returns only when the stream holds no more bytes
pd_breakMut ==
    /\ call.fn = "piece_download" /\ call.stage = "loop"
    /\ Collected(call.output.blocks, call.output.piece)
    /\ call.output.rest = <<>>
    /\ call' = [call EXCEPT !.stage = "ok"]
    /\ UNCHANGED <<dlVars, geo, hsk>>

\* the sum is piece.len(): break, Ok(piece)
pd_break ==
    /\ call.fn = "piece_download" /\ call.stage = "loop"
    /\ Collected(call.output.blocks, call.output.piece)
    /\ call' = [call EXCEPT !.stage = "ok"]
    /\ UNCHANGED <<dlVars, geo, hsk>>

MockNext == pd_begin \/ pd_read \/ pd_break

MockSpec == MockInit /\ [][MockNext]_vars

\* the (begin, length) keys of the Piece frames among the first k frames
KeysUpTo(frames, k) ==
    { <<frames[j].begin, Len(frames[j].block)>> :
        j \in { i \in 1..k : frames[i].type = "Piece" } }

\* C27: once the lengths of the recorded blocks sum to the piece size the
\* session reads no more: when it returns the piece it has read the
\* BitField, the Unchoke and the Piece frames up to the first one that makes
\* the sum right, one read each, every byte after that frame is still in
\* the stream, and it never waits for a message with the sum right.
C27_NoReadAfterCompletion ==
    call.fn = "piece_download" =>
        LET in == call.input
            out == call.output
            size == Min(piece_length(in.torrent),
                        total_len(in.torrent) - in.index * piece_length(in.torrent))
        IN  /\ call.stage = "ok" =>
                 \E k \in 3..Len(in.frames) :
                    /\ in.frames[1].type = "BitField"
                    /\ in.frames[2].type = "Unchoke"
                    /\ \A j \in 3..k : in.frames[j].type = "Piece"
                    /\ SumSnd(KeysUpTo(in.frames, k)) = size
                    /\ \A j \in 3..(k - 1) : SumSnd(KeysUpTo(in.frames, j)) # size
                    /\ out.reads = k
                    /\ out.rest = SubSeq(in.stream,
                                         Len(FrameBytes(SubSeq(in.frames, 1, k))) + 1,
                                         Len(in.stream))
            /\ call.stage = "blocked" => SumSnd(out.blocks) # size

\* the piece is returned with a whole Piece frame left in the stream
C27_Witness ==
    /\ call.fn = "piece_download" /\ call.stage = "ok"
    /\ Len(call.output.rest) >= 13
    /\ ~call.input.closed

\* piece_download runs on the caller's thread and nothing else takes its
\* stream: a step that can be taken is taken
MockLiveSpec == MockSpec /\ WF_vars(MockNext)

\* the stream of a compliant peer: BitField, Unchoke, then one reply for each
\* Request of the piece, in any order, all of them whole; what follows is free
CompliantInput ==
    LET in == call.input
        replies == MatchingReplies(in.torrent, in.block_size, in.index)
        n == Cardinality(replies)
    IN  /\ in.index < pieces_count(in.torrent)
        /\ n >= 1
        /\ Len(in.frames) >= 2 + n
        /\ in.frames[1].type = "BitField"
        /\ in.frames[2].type = "Unchoke"
        /\ { in.frames[2 + j] : j \in 1..n } = replies
        /\ Len(in.stream) >= Len(FrameBytes(SubSeq(in.frames, 1, 2 + n)))

\* the bytes of the file that make the piece
PieceBytes(t, index) ==
    [k \in 1..Min(piece_length(t), total_len(t) - index * piece_length(t)) |->
        FileByte(index * piece_length(t) + k - 1)]

\* C28: against a peer that has sent BitField, Unchoke and one reply for
\* each requested block of a piece that is not empty, in any order, the
\* session terminates and returns the bytes of the piece.
C28_CompliantTerminates ==
    (call.fn = "piece_download" /\ call.stage = "call" /\ CompliantInput)
        ~> (/\ call.stage = "ok"
            /\ call.output.piece = PieceBytes(call.input.torrent, call.input.index))

\* the piece is returned from two replies sent last block first, on a stream
\* that stays open
C28_Witness ==
    /\ call.fn = "piece_download" /\ call.stage = "ok"
    /\ CompliantInput
    /\ ~call.input.closed
    /\ Len(call.input.frames) >= 4
    /\ call.input.frames[4].type = "Piece"
    /\ call.input.frames[3].begin > call.input.frames[4].begin

\* C29: when the index is not smaller than pieces_count, piece_download
\* returns an error, and it has read nothing from the stream and written
\* nothing to it.
C29_BadIndexIsError ==
    (/\ call.fn = "piece_download" /\ call.stage # "call"
     /\ call.input.index >= pieces_count(call.input.torrent)) =>
        /\ call.stage = "err"
        /\ call.output.rest = call.input.stream
        /\ call.output.tx = <<>>
        /\ call.output.reads = 0

(***************************************************************************)
(* download: the buffer of the file                                        *)
(***************************************************************************)

\* C30: in a download every piece the session returns is copied to
\* [piece_offset, piece_offset + piece_size) of the buffer, inside it, and
\* the copy changes no other byte; no other step changes the buffer; the
\* buffer returned on success is that one and has length total_len.
C30_Step ==
    op = "download" =>
        LET off == cur * piece_length(torrent)
            size == SessionPieceSize
        IN  /\ (pc = "piece_ok" /\ pc' = "dl_next") =>
                  /\ Len(piece) = size
                  /\ off + size <= total_len(torrent)
                  /\ Len(file) = total_len(torrent)
                  /\ Len(file') = total_len(torrent)
                  /\ \A k \in 1..total_len(torrent) :
                        file'[k] = IF k > off /\ k <= off + size
                                   THEN piece[k - off] ELSE file[k]
            /\ (pc = "piece_ok" /\ pc' # "dl_next") => file' = file
            /\ pc \notin {"piece_ok", "call"} => file' = file
            /\ (result.status # "ok" /\ result'.status = "ok") =>
                  /\ result'.val = file
                  /\ Len(file) = total_len(torrent)
                  /\ completed = [k \in 1..pieces_count(torrent) |-> k - 1]

C30_BufferAssembled == [][C30_Step]_vars

\* a download returns a buffer whose second piece holds what the session
\* returned for it, bytes that are not the file's
C30_Witness ==
    /\ op = "download" /\ result.status = "ok"
    /\ Len(result.val) = total_len(torrent)
    /\ result.val[piece_length(torrent) + 1] = MaxByte + 1
    /\ result.val[1] = FileByte(0)

====
